---- MODULE Spec2Model ----
(***************************************************************************)
(* Model of src/src/auth/auth_manager.py: the AuthManager registry, the    *)
(* four AuthProvider variants and the AuthCredentials objects they handle. *)
(*                                                                         *)
(* Python objects are modelled with identity: a credential is an object on *)
(* `heap`, the manager's _credentials dict maps a provider id to an object *)
(* reference, and refresh_token mutates the object in place, so that two   *)
(* ids holding the same object see each other's mutation.  Objects that no *)
(* entry of _credentials refers to are dropped from `heap`, and an object  *)
(* is named by the position of the first provider id that holds it.        *)
(*                                                                         *)
(* Spec is the manager under sequential calls.  CallSpec calls a provider  *)
(* directly on every shape of credential, CtorSpec constructs credentials  *)
(* with the metadata dict as an object of its own, ConcSpec interleaves    *)
(* revoke_credentials with another call step by step, and OAuthSpec is the *)
(* HFOAuth client of src/src/auth/hf_oauth.py.  DevSpec is the DevAuth     *)
(* stub of src/src/auth/dev_auth.py under a clock, and ScoreSpec the       *)
(* scores store of src/src/app.py.                                         *)
(***************************************************************************)
EXTENDS Integers, Sequences, FiniteSets, TLC

VARIABLES providers,    \* AuthManager._providers: insertion-ordered dict, as a sequence of providers
          credentials,  \* AuthManager._credentials: provider id -> reference of the stored object
          heap,         \* reference -> fields of the AuthCredentials object
          lastOp,       \* the manager call that produced this state, its result and the provider calls it made
          pcall,        \* a provider object, a credential handed to it directly, and the result of the call
          mem,          \* AuthCredentials objects as constructed, with the dict each one's metadata attribute refers to
          conc,         \* two callers inside manager methods at once: each one's position, locals and result
          oauth,        \* an HFOAuth object: state, code_verifier, and its last call with the HTTP requests it sent
          dev,          \* a DevAuth object, the clock datetime.utcnow() reads, and the last call on the object
          scores        \* app.py: the scores_database list and the last register_score call

vars == <<providers, credentials, heap, lastOp, pcall, mem, conc, oauth, dev, scores>>

\* the AuthManager and the last call made on it
manager == <<providers, credentials, heap, lastOp>>

\* the state outside the AuthManager
others == <<pcall, mem, conc, oauth, dev, scores>>

\* ------------------------------------------------------------------ bounds
\* datetime.utcnow() is read as an input: the stamp is one of 1..MaxTime.
MaxTime == 1

\* ------------------------------------------------------------------ values
None == "None"

IdOrder == <<"hf", "b">>

ProviderIds == {IdOrder[i] : i \in 1..Len(IdOrder)}

ProviderClasses == {"OAuth2Provider", "BasicAuthProvider", "APIKeyProvider", "JWTProvider"}

AuthProviderType == {"oauth2", "basic", "api_key", "jwt", "custom"}

EmptyDict == [k \in {} |-> None]

\* dict[k] = v
DictSet(d, k, v) == [x \in (DOMAIN d) \cup {k} |-> IF x = k THEN v ELSE d[x]]

\* del dict[k]
DictDel(d, k) == [x \in (DOMAIN d) \ {k} |-> d[x]]

\* Python truth value of an Optional[str]: None and "" are false.
Truthy(s) == s # None /\ s # ""

\* AuthCredentials(...) followed by __post_init__; metadata is <<>> when the
\* caller omits it or passes None, <<d>> when the caller passes the dict d.
AuthCredentials(provider_type, access_token, refresh_token, username, password, api_key, expires_in, metadata) ==
    [provider_type |-> provider_type,
     access_token  |-> access_token,
     refresh_token |-> refresh_token,
     username      |-> username,
     password      |-> password,
     api_key       |-> api_key,
     expires_in    |-> expires_in,
     metadata      |-> IF metadata = <<>> THEN EmptyDict ELSE metadata[1]]

\* AuthProvider.__init__: the provider object; config is opaque and never read.
AuthProvider(cls, provider_id) == [cls |-> cls, provider_id |-> provider_id]

Providers == {AuthProvider(c, i) : c \in ProviderClasses, i \in ProviderIds}

\* The credentials a caller constructs (expires_in is an opaque payload).
CredInputs ==
    { AuthCredentials("oauth2", "tok-1", None, None, None, None, None, <<>>),
      AuthCredentials("basic",  None, None, "user", None, None, None, <<>>),
      AuthCredentials("custom", "tok-2", "ref-2", "user", "pw", "key-2", "3600",
                      <<[k \in {"scope"} |-> "read"]>>) }

\* ------------------------------------------------------------------ providers
OAuth2Provider_authenticate(c) == Truthy(c.access_token)

\* mutant: the token only counts as valid when it can be refreshed
OAuth2Provider_validate_token_refreshable(c) ==
    Truthy(c.access_token) /\ Truthy(c.refresh_token)

OAuth2Provider_validate_token(c) == Truthy(c.access_token)

\* mutant: the refreshed credential comes back without its access token
OAuth2Provider_refresh_token_drops_token(c, now) ==
    [c EXCEPT !.access_token = None,
              !.metadata = DictSet(c.metadata, "refreshed_at", now)]

OAuth2Provider_refresh_token(c, now) ==
    [c EXCEPT !.metadata = DictSet(c.metadata, "refreshed_at", now)]

\* mutant: the revoke endpoint refuses
OAuth2Provider_revoke_token_refuses(c) == FALSE

OAuth2Provider_revoke_token(c) == TRUE

BasicAuthProvider_authenticate(c) == Truthy(c.username) /\ Truthy(c.password)

\* mutant: only None counts as absent
BasicAuthProvider_validate_token_not_none(c) == c.username # None /\ c.password # None

BasicAuthProvider_validate_token(c) == Truthy(c.username) /\ Truthy(c.password)

\* mutant: Basic stamps the metadata like the providers that support refresh
BasicAuthProvider_refresh_token_stamps(c, now) ==
    [c EXCEPT !.metadata = DictSet(c.metadata, "refreshed_at", now)]

BasicAuthProvider_refresh_token(c, now) == c

\* mutant: a variant without revocation support reports failure
BasicAuthProvider_revoke_token_unsupported(c) == FALSE

BasicAuthProvider_revoke_token(c) == TRUE

APIKeyProvider_authenticate(c) == Truthy(c.api_key)

APIKeyProvider_validate_token(c) == Truthy(c.api_key)

APIKeyProvider_refresh_token(c, now) == c

APIKeyProvider_revoke_token(c) == TRUE

JWTProvider_authenticate(c) == Truthy(c.access_token)

JWTProvider_validate_token(c) == Truthy(c.access_token)

\* mutant: the metadata is replaced by a new dict holding the stamp only
JWTProvider_refresh_token_resets_metadata(c, now) ==
    [c EXCEPT !.metadata = DictSet(EmptyDict, "refreshed_at", now)]

JWTProvider_refresh_token(c, now) ==
    [c EXCEPT !.metadata = DictSet(c.metadata, "refreshed_at", now)]

JWTProvider_revoke_token(c) == TRUE

\* provider.authenticate(credentials), dispatched on the provider's class
ProviderAuthenticate(p, c) ==
    CASE p.cls = "OAuth2Provider"    -> OAuth2Provider_authenticate(c)
      [] p.cls = "BasicAuthProvider" -> BasicAuthProvider_authenticate(c)
      [] p.cls = "APIKeyProvider"    -> APIKeyProvider_authenticate(c)
      [] p.cls = "JWTProvider"       -> JWTProvider_authenticate(c)

\* provider.validate_token(credentials)
ProviderValidateToken(p, c) ==
    CASE p.cls = "OAuth2Provider"    -> OAuth2Provider_validate_token(c)
      [] p.cls = "BasicAuthProvider" -> BasicAuthProvider_validate_token(c)
      [] p.cls = "APIKeyProvider"    -> APIKeyProvider_validate_token(c)
      [] p.cls = "JWTProvider"       -> JWTProvider_validate_token(c)

\* provider.refresh_token(credentials): the fields of the object afterwards
ProviderRefreshToken(p, c, now) ==
    CASE p.cls = "OAuth2Provider"    -> OAuth2Provider_refresh_token(c, now)
      [] p.cls = "BasicAuthProvider" -> BasicAuthProvider_refresh_token(c, now)
      [] p.cls = "APIKeyProvider"    -> APIKeyProvider_refresh_token(c, now)
      [] p.cls = "JWTProvider"       -> JWTProvider_refresh_token(c, now)

\* provider.revoke_token(credentials)
ProviderRevokeToken(p, c) ==
    CASE p.cls = "OAuth2Provider"    -> OAuth2Provider_revoke_token(c)
      [] p.cls = "BasicAuthProvider" -> BasicAuthProvider_revoke_token(c)
      [] p.cls = "APIKeyProvider"    -> APIKeyProvider_revoke_token(c)
      [] p.cls = "JWTProvider"       -> JWTProvider_revoke_token(c)

\* ------------------------------------------------------------------ manager reads
\* provider_id in self._providers
Registered(provs, id) == \E i \in 1..Len(provs) : provs[i].provider_id = id

\* self._providers.keys()
RegisteredIds(provs) == {provs[i].provider_id : i \in 1..Len(provs)}

\* AuthManager.get_provider: <<>> for None, <<p>> for the provider
get_provider(provs, id) ==
    IF Registered(provs, id)
    THEN <<provs[CHOOSE i \in 1..Len(provs) : provs[i].provider_id = id]>>
    ELSE <<>>

\* AuthManager.list_providers
list_providers(provs) == [i \in 1..Len(provs) |-> provs[i].provider_id]

\* AuthManager.get_credentials: <<>> for None, <<fields>> for the stored object
get_credentials(creds, hp, id) ==
    IF id \in DOMAIN creds THEN <<hp[creds[id]]>> ELSE <<>>

\* mutant: a credential without a provider counts as valid
validate_credentials_orphan_true(provs, creds, hp, id) ==
    IF id \notin DOMAIN creds THEN FALSE
    ELSE IF get_provider(provs, id) = <<>> THEN TRUE
    ELSE ProviderValidateToken(get_provider(provs, id)[1], hp[creds[id]])

\* AuthManager.validate_credentials
validate_credentials(provs, creds, hp, id) ==
    IF id \notin DOMAIN creds THEN FALSE
    ELSE IF get_provider(provs, id) = <<>> THEN FALSE
    ELSE ProviderValidateToken(get_provider(provs, id)[1], hp[creds[id]])

\* mutant: the sweep runs over the ids that hold a credential
get_authentication_status_of_credentials(provs, creds, hp) ==
    [id \in DOMAIN creds |-> validate_credentials(provs, creds, hp, id)]

\* AuthManager.get_authentication_status
get_authentication_status(provs, creds, hp) ==
    [id \in {provs[i].provider_id : i \in 1..Len(provs)} |->
        validate_credentials(provs, creds, hp, id)]

\* the provider calls validate_credentials makes
ValidateCalls(provs, creds, id) ==
    IF id \in DOMAIN creds /\ Registered(provs, id)
    THEN <<<<id, "validate_token">>>> ELSE <<>>

\* the ids that hold a credential
StoredIds(creds) == SelectSeq(IdOrder, LAMBDA i : i \in DOMAIN creds)

RECURSIVE StatusCalls(_, _, _, _)
\* the provider calls get_authentication_status makes, in iteration order
StatusCalls(provs, creds, i, acc) ==
    IF i > Len(provs) THEN acc
    ELSE StatusCalls(provs, creds, i + 1,
                     acc \o ValidateCalls(provs, creds, provs[i].provider_id))

\* ------------------------------------------------------------------ heap
\* a reference not in use
NewRef(hp) == CHOOSE r \in 0..Cardinality(DOMAIN hp) : r \notin DOMAIN hp

\* the name of the object stored under id: the position of the first id holding it
Rank(creds, id) ==
    CHOOSE i \in 1..Len(IdOrder) :
        /\ IdOrder[i] \in DOMAIN creds
        /\ creds[IdOrder[i]] = creds[id]
        /\ \A j \in 1..(i - 1) :
              ~(IdOrder[j] \in DOMAIN creds /\ creds[IdOrder[j]] = creds[id])

\* _credentials with every object under its name
NormCreds(creds) == [id \in DOMAIN creds |-> Rank(creds, id)]

\* the objects _credentials refers to, each under its name
NormHeap(creds, hp) ==
    [r \in {Rank(creds, id) : id \in DOMAIN creds} |-> hp[creds[IdOrder[r]]]]

Bool(b) == IF b THEN "True" ELSE "False"

ErrAlreadyRegistered == "ValueError: Provider already registered"

ErrProviderNotFound == "ValueError: Provider not found"

ErrNoCredentials == "ValueError: No credentials found for provider"

Op(op, args, ret, calls, prev) ==
    [op |-> op, args |-> args, ret |-> ret, calls |-> calls, prev |-> prev]

\* HFOAuth.__init__: no state and no code verifier yet.  issued collects the
\* states generated so far and last describes the last call: its arguments,
\* the outcomes the network had in store, its result and the requests sent.
HFOAuth_init ==
    [state |-> None, code_verifier |-> None, issued |-> {},
     last |-> [op |-> "__init__", args |-> <<>>, outcomes |-> <<>>, ret |-> None, requests |-> <<>>]]

\* no DevAuth object has been made
NoDevAuth == [self |-> None, now |-> 0, last |-> None]

\* scores_database = [] at import, register_score not called yet
NoScores == [db |-> <<>>, last |-> <<>>]

\* no caller is inside a manager method
NoCallers == [revoke |-> None, other |-> None, overlap |-> FALSE]

\* no credential has been constructed
NoObjects == [objs |-> <<>>, dicts |-> <<>>, last |-> <<>>]

\* no provider is being called directly
NoCall == [provider |-> None, credentials |-> None, op |-> None, ret |-> None]

\* ------------------------------------------------------------------ operations
Init ==
    /\ providers = <<>>
    /\ credentials = EmptyDict
    /\ heap = [r \in {} |-> None]
    /\ lastOp = Op("__init__", <<>>, None, <<>>, <<>>)
    /\ pcall = NoCall
    /\ mem = NoObjects
    /\ conc = NoCallers
    /\ oauth = HFOAuth_init
    /\ dev = NoDevAuth
    /\ scores = NoScores

\* mutant: the second provider replaces the first
register_provider_overwrite(p) ==
    LET prev == get_credentials(credentials, heap, p.provider_id) IN
    IF Registered(providers, p.provider_id)
    THEN /\ providers' = [i \in 1..Len(providers) |->
                            IF providers[i].provider_id = p.provider_id THEN p ELSE providers[i]]
         /\ lastOp' = Op("register_provider", <<p>>, None, <<>>, prev)
         /\ UNCHANGED <<credentials, heap>>
    ELSE /\ providers' = Append(providers, p)
         /\ lastOp' = Op("register_provider", <<p>>, None, <<>>, prev)
         /\ UNCHANGED <<credentials, heap>>

\* mutant: registering drops whatever credential is stored under the id
register_provider_purge(p) ==
    LET prev == get_credentials(credentials, heap, p.provider_id) IN
    IF Registered(providers, p.provider_id)
    THEN /\ lastOp' = Op("register_provider", <<p>>, ErrAlreadyRegistered, <<>>, prev)
         /\ UNCHANGED <<providers, credentials, heap>>
    ELSE /\ providers' = Append(providers, p)
         /\ credentials' = NormCreds(DictDel(credentials, p.provider_id))
         /\ heap' = NormHeap(DictDel(credentials, p.provider_id), heap)
         /\ lastOp' = Op("register_provider", <<p>>, None, <<>>, prev)

register_provider(p) ==
    LET prev == get_credentials(credentials, heap, p.provider_id) IN
    IF Registered(providers, p.provider_id)
    THEN /\ lastOp' = Op("register_provider", <<p>>, ErrAlreadyRegistered, <<>>, prev)
         /\ UNCHANGED <<providers, credentials, heap>>
    ELSE /\ providers' = Append(providers, p)
         /\ lastOp' = Op("register_provider", <<p>>, None, <<>>, prev)
         /\ UNCHANGED <<credentials, heap>>

\* mutant: unregistering also deletes the credential
unregister_provider_purge(id) ==
    LET prev == get_credentials(credentials, heap, id) IN
    IF Registered(providers, id)
    THEN /\ providers' = SelectSeq(providers, LAMBDA q : q.provider_id # id)
         /\ credentials' = NormCreds(DictDel(credentials, id))
         /\ heap' = NormHeap(DictDel(credentials, id), heap)
         /\ lastOp' = Op("unregister_provider", <<id>>, "True", <<>>, prev)
    ELSE /\ lastOp' = Op("unregister_provider", <<id>>, "False", <<>>, prev)
         /\ UNCHANGED <<providers, credentials, heap>>

\* mutant: success is reported whether or not the id was registered
unregister_provider_always_true(id) ==
    LET prev == get_credentials(credentials, heap, id) IN
    /\ providers' = SelectSeq(providers, LAMBDA q : q.provider_id # id)
    /\ lastOp' = Op("unregister_provider", <<id>>, "True", <<>>, prev)
    /\ UNCHANGED <<credentials, heap>>

unregister_provider(id) ==
    LET prev == get_credentials(credentials, heap, id) IN
    IF Registered(providers, id)
    THEN /\ providers' = SelectSeq(providers, LAMBDA q : q.provider_id # id)
         /\ lastOp' = Op("unregister_provider", <<id>>, "True", <<>>, prev)
         /\ UNCHANGED <<credentials, heap>>
    ELSE /\ lastOp' = Op("unregister_provider", <<id>>, "False", <<>>, prev)
         /\ UNCHANGED <<providers, credentials, heap>>

\* mutant: the metadata of the credential stored before is merged into the new one
authenticate_merge(id, ref, c) ==
    LET prev     == get_credentials(credentials, heap, id)
        provider == get_provider(providers, id)
        old      == IF prev = <<>> THEN EmptyDict ELSE prev[1].metadata
        merged   == [c EXCEPT !.metadata =
                        [k \in (DOMAIN old) \cup (DOMAIN c.metadata) |->
                            IF k \in DOMAIN c.metadata THEN c.metadata[k] ELSE old[k]]]
    IN
    IF provider = <<>>
    THEN /\ lastOp' = Op("authenticate", <<id, c>>, ErrProviderNotFound, <<>>, prev)
         /\ UNCHANGED <<providers, credentials, heap>>
    ELSE IF ProviderAuthenticate(provider[1], c)
    THEN /\ credentials' = NormCreds(DictSet(credentials, id, ref))
         /\ heap' = NormHeap(DictSet(credentials, id, ref), DictSet(heap, ref, merged))
         /\ lastOp' = Op("authenticate", <<id, c>>, "True", <<<<id, "authenticate">>>>, prev)
         /\ UNCHANGED providers
    ELSE /\ lastOp' = Op("authenticate", <<id, c>>, "False", <<<<id, "authenticate">>>>, prev)
         /\ UNCHANGED <<providers, credentials, heap>>

\* mutant: the credential is stored before the provider's answer is looked at
authenticate_store_first(id, ref, c) ==
    LET prev     == get_credentials(credentials, heap, id)
        provider == get_provider(providers, id)
    IN
    IF provider = <<>>
    THEN /\ lastOp' = Op("authenticate", <<id, c>>, ErrProviderNotFound, <<>>, prev)
         /\ UNCHANGED <<providers, credentials, heap>>
    ELSE /\ credentials' = NormCreds(DictSet(credentials, id, ref))
         /\ heap' = NormHeap(DictSet(credentials, id, ref), DictSet(heap, ref, c))
         /\ lastOp' = Op("authenticate", <<id, c>>, Bool(ProviderAuthenticate(provider[1], c)),
                         <<<<id, "authenticate">>>>, prev)
         /\ UNCHANGED providers

\* mutant: an unknown provider is reported as a failed authentication
authenticate_unknown_false(id, ref, c) ==
    LET prev     == get_credentials(credentials, heap, id)
        provider == get_provider(providers, id)
    IN
    IF provider = <<>>
    THEN /\ lastOp' = Op("authenticate", <<id, c>>, "False", <<>>, prev)
         /\ UNCHANGED <<providers, credentials, heap>>
    ELSE IF ProviderAuthenticate(provider[1], c)
    THEN /\ credentials' = NormCreds(DictSet(credentials, id, ref))
         /\ heap' = NormHeap(DictSet(credentials, id, ref), DictSet(heap, ref, c))
         /\ lastOp' = Op("authenticate", <<id, c>>, "True", <<<<id, "authenticate">>>>, prev)
         /\ UNCHANGED providers
    ELSE /\ lastOp' = Op("authenticate", <<id, c>>, "False", <<<<id, "authenticate">>>>, prev)
         /\ UNCHANGED <<providers, credentials, heap>>

\* mutant: without a registered provider the credential is stored unchecked
authenticate_unregistered_stores(id, ref, c) ==
    LET prev     == get_credentials(credentials, heap, id)
        provider == get_provider(providers, id)
    IN
    IF provider = <<>> \/ ProviderAuthenticate(provider[1], c)
    THEN /\ credentials' = NormCreds(DictSet(credentials, id, ref))
         /\ heap' = NormHeap(DictSet(credentials, id, ref), DictSet(heap, ref, c))
         /\ lastOp' = Op("authenticate", <<id, c>>, "True",
                         IF provider = <<>> THEN <<>> ELSE <<<<id, "authenticate">>>>, prev)
         /\ UNCHANGED providers
    ELSE /\ lastOp' = Op("authenticate", <<id, c>>, "False", <<<<id, "authenticate">>>>, prev)
         /\ UNCHANGED <<providers, credentials, heap>>

\* authenticate(id, c) where ref is the object passed: an object already
\* stored under some id (the caller kept it) or a newly constructed one.
authenticate(id, ref, c) ==
    LET prev     == get_credentials(credentials, heap, id)
        provider == get_provider(providers, id)
    IN
    IF provider = <<>>
    THEN /\ lastOp' = Op("authenticate", <<id, c>>, ErrProviderNotFound, <<>>, prev)
         /\ UNCHANGED <<providers, credentials, heap>>
    ELSE IF ProviderAuthenticate(provider[1], c)
    THEN /\ credentials' = NormCreds(DictSet(credentials, id, ref))
         /\ heap' = NormHeap(DictSet(credentials, id, ref), DictSet(heap, ref, c))
         /\ lastOp' = Op("authenticate", <<id, c>>, "True", <<<<id, "authenticate">>>>, prev)
         /\ UNCHANGED providers
    ELSE /\ lastOp' = Op("authenticate", <<id, c>>, "False", <<<<id, "authenticate">>>>, prev)
         /\ UNCHANGED <<providers, credentials, heap>>

authenticate_new(id, c) == authenticate(id, NewRef(heap), c)

authenticate_held(id, ref) == authenticate(id, ref, heap[ref])

\* mutant: a stored credential found invalid is dropped
validate_credentials_op_evicts(id) ==
    LET valid == validate_credentials(providers, credentials, heap, id)
        evict == id \in DOMAIN credentials /\ ~valid
    IN
    /\ lastOp' = Op("validate_credentials", <<id>>, Bool(valid),
                    ValidateCalls(providers, credentials, id),
                    get_credentials(credentials, heap, id))
    /\ credentials' = IF evict THEN NormCreds(DictDel(credentials, id)) ELSE credentials
    /\ heap' = IF evict THEN NormHeap(DictDel(credentials, id), heap) ELSE heap
    /\ UNCHANGED providers

validate_credentials_op(id) ==
    /\ lastOp' = Op("validate_credentials", <<id>>,
                    Bool(validate_credentials(providers, credentials, heap, id)),
                    ValidateCalls(providers, credentials, id),
                    get_credentials(credentials, heap, id))
    /\ UNCHANGED <<providers, credentials, heap>>

\* mutant: a missing credential is reported as a failed refresh
refresh_credentials_missing_false(id, now) ==
    LET prev     == get_credentials(credentials, heap, id)
        provider == get_provider(providers, id)
    IN
    IF id \notin DOMAIN credentials
    THEN /\ lastOp' = Op("refresh_credentials", <<id>>, "False", <<>>, prev)
         /\ UNCHANGED <<providers, credentials, heap>>
    ELSE IF provider = <<>>
    THEN /\ lastOp' = Op("refresh_credentials", <<id>>, ErrProviderNotFound, <<>>, prev)
         /\ UNCHANGED <<providers, credentials, heap>>
    ELSE /\ heap' = [heap EXCEPT ![credentials[id]] =
                        ProviderRefreshToken(provider[1], heap[credentials[id]], now)]
         /\ credentials' = DictSet(credentials, id, credentials[id])
         /\ lastOp' = Op("refresh_credentials", <<id>>, "True", <<<<id, "refresh_token">>>>, prev)
         /\ UNCHANGED providers

refresh_credentials(id, now) ==
    LET prev     == get_credentials(credentials, heap, id)
        provider == get_provider(providers, id)
    IN
    IF id \notin DOMAIN credentials
    THEN /\ lastOp' = Op("refresh_credentials", <<id>>, ErrNoCredentials, <<>>, prev)
         /\ UNCHANGED <<providers, credentials, heap>>
    ELSE IF provider = <<>>
    THEN /\ lastOp' = Op("refresh_credentials", <<id>>, ErrProviderNotFound, <<>>, prev)
         /\ UNCHANGED <<providers, credentials, heap>>
    ELSE /\ heap' = [heap EXCEPT ![credentials[id]] =
                        ProviderRefreshToken(provider[1], heap[credentials[id]], now)]
         /\ credentials' = DictSet(credentials, id, credentials[id])
         /\ lastOp' = Op("refresh_credentials", <<id>>, "True", <<<<id, "refresh_token">>>>, prev)
         /\ UNCHANGED providers

\* mutant: success is reported but the credential is not deleted
revoke_credentials_keep(id) ==
    LET prev     == get_credentials(credentials, heap, id)
        provider == get_provider(providers, id)
    IN
    IF id \notin DOMAIN credentials \/ provider = <<>>
    THEN /\ lastOp' = Op("revoke_credentials", <<id>>, "False", <<>>, prev)
         /\ UNCHANGED <<providers, credentials, heap>>
    ELSE /\ lastOp' = Op("revoke_credentials", <<id>>,
                         Bool(ProviderRevokeToken(provider[1], heap[credentials[id]])),
                         <<<<id, "revoke_token">>>>, prev)
         /\ UNCHANGED <<providers, credentials, heap>>

\* mutant: a credential whose provider is gone is deleted all the same
revoke_credentials_orphan(id) ==
    LET prev     == get_credentials(credentials, heap, id)
        provider == get_provider(providers, id)
    IN
    IF id \notin DOMAIN credentials
    THEN /\ lastOp' = Op("revoke_credentials", <<id>>, "False", <<>>, prev)
         /\ UNCHANGED <<providers, credentials, heap>>
    ELSE IF provider = <<>> \/ ProviderRevokeToken(provider[1], heap[credentials[id]])
    THEN /\ credentials' = NormCreds(DictDel(credentials, id))
         /\ heap' = NormHeap(DictDel(credentials, id), heap)
         /\ lastOp' = Op("revoke_credentials", <<id>>, "True",
                         IF provider = <<>> THEN <<>> ELSE <<<<id, "revoke_token">>>>, prev)
         /\ UNCHANGED providers
    ELSE /\ lastOp' = Op("revoke_credentials", <<id>>, "False", <<<<id, "revoke_token">>>>, prev)
         /\ UNCHANGED <<providers, credentials, heap>>

revoke_credentials(id) ==
    LET prev     == get_credentials(credentials, heap, id)
        provider == get_provider(providers, id)
    IN
    IF id \notin DOMAIN credentials
    THEN /\ lastOp' = Op("revoke_credentials", <<id>>, "False", <<>>, prev)
         /\ UNCHANGED <<providers, credentials, heap>>
    ELSE IF provider = <<>>
    THEN /\ lastOp' = Op("revoke_credentials", <<id>>, "False", <<>>, prev)
         /\ UNCHANGED <<providers, credentials, heap>>
    ELSE IF ProviderRevokeToken(provider[1], heap[credentials[id]])
    THEN /\ credentials' = NormCreds(DictDel(credentials, id))
         /\ heap' = NormHeap(DictDel(credentials, id), heap)
         /\ lastOp' = Op("revoke_credentials", <<id>>, "True", <<<<id, "revoke_token">>>>, prev)
         /\ UNCHANGED providers
    ELSE /\ lastOp' = Op("revoke_credentials", <<id>>, "False", <<<<id, "revoke_token">>>>, prev)
         /\ UNCHANGED <<providers, credentials, heap>>

\* mutant: popitem() in place of clear(): one entry is removed
clear_all_credentials_popitem ==
    /\ credentials' = IF DOMAIN credentials = {} THEN EmptyDict
                      ELSE NormCreds(DictDel(credentials, CHOOSE id \in DOMAIN credentials : TRUE))
    /\ heap' = [r \in {credentials'[id] : id \in DOMAIN credentials'} |->
                  heap[credentials[IdOrder[r]]]]
    /\ lastOp' = Op("clear_all_credentials", <<>>, None, <<>>, StoredIds(credentials))
    /\ UNCHANGED providers

\* mutant: only the credentials of registered providers are cleared
clear_all_credentials_registered_only ==
    LET kept == [id \in (DOMAIN credentials) \ RegisteredIds(providers) |-> credentials[id]] IN
    /\ credentials' = NormCreds(kept)
    /\ heap' = NormHeap(kept, heap)
    /\ lastOp' = Op("clear_all_credentials", <<>>, None, <<>>, StoredIds(credentials))
    /\ UNCHANGED providers

clear_all_credentials ==
    /\ credentials' = EmptyDict
    /\ heap' = NormHeap(EmptyDict, heap)
    /\ lastOp' = Op("clear_all_credentials", <<>>, None, <<>>, StoredIds(credentials))
    /\ UNCHANGED providers

get_authentication_status_op ==
    /\ lastOp' = Op("get_authentication_status", <<>>,
                    get_authentication_status(providers, credentials, heap),
                    StatusCalls(providers, credentials, 1, <<>>), <<>>)
    /\ UNCHANGED <<providers, credentials, heap>>

\* mutant: the credential of an unregistered id is not shown
get_credentials_op_registered_only(id) ==
    LET shown == IF Registered(providers, id)
                 THEN get_credentials(credentials, heap, id) ELSE <<>> IN
    /\ lastOp' = Op("get_credentials", <<id>>, shown, <<>>,
                    get_credentials(credentials, heap, id))
    /\ UNCHANGED <<providers, credentials, heap>>

get_credentials_op(id) ==
    /\ lastOp' = Op("get_credentials", <<id>>, get_credentials(credentials, heap, id),
                    <<>>, get_credentials(credentials, heap, id))
    /\ UNCHANGED <<providers, credentials, heap>>

get_provider_op(id) ==
    /\ lastOp' = Op("get_provider", <<id>>, get_provider(providers, id),
                    <<>>, get_credentials(credentials, heap, id))
    /\ UNCHANGED <<providers, credentials, heap>>

list_providers_op ==
    /\ lastOp' = Op("list_providers", <<>>, list_providers(providers), <<>>, <<>>)
    /\ UNCHANGED <<providers, credentials, heap>>

Next ==
    \/ \E p \in Providers : register_provider(p) /\ UNCHANGED others
    \/ \E id \in ProviderIds : unregister_provider(id) /\ UNCHANGED others
    \/ \E id \in ProviderIds, c \in CredInputs : authenticate_new(id, c) /\ UNCHANGED others
    \/ \E id \in ProviderIds, ref \in DOMAIN heap : authenticate_held(id, ref) /\ UNCHANGED others
    \/ \E id \in ProviderIds : validate_credentials_op(id) /\ UNCHANGED others
    \/ \E id \in ProviderIds, now \in 1..MaxTime : refresh_credentials(id, now) /\ UNCHANGED others
    \/ \E id \in ProviderIds : revoke_credentials(id) /\ UNCHANGED others
    \/ clear_all_credentials /\ UNCHANGED others
    \/ get_authentication_status_op /\ UNCHANGED others
    \/ \E id \in ProviderIds : get_credentials_op(id) /\ UNCHANGED others
    \/ \E id \in ProviderIds : get_provider_op(id) /\ UNCHANGED others
    \/ list_providers_op /\ UNCHANGED others

Spec == Init /\ [][Next]_vars

TypeOK ==
    /\ \A i \in 1..Len(providers) : providers[i] \in Providers
    /\ DOMAIN credentials \subseteq ProviderIds
    /\ \A id \in DOMAIN credentials : credentials[id] \in DOMAIN heap

\* ------------------------------------------------------------------ provider calls
\* A provider object called directly, outside the manager: the caller builds
\* a credential with each string field absent (None), empty or present and
\* hands it to authenticate or validate_token of one of the four classes.
FieldValues == {None, "", "x"}

CallCredentials ==
    { AuthCredentials("custom", a, r, u, p, k, None, <<>>) :
        a \in FieldValues, r \in FieldValues, u \in FieldValues,
        p \in FieldValues, k \in FieldValues }

CallInit ==
    /\ providers = <<>>
    /\ credentials = EmptyDict
    /\ heap = [r \in {} |-> None]
    /\ lastOp = Op("__init__", <<>>, None, <<>>, <<>>)
    /\ mem = NoObjects
    /\ conc = NoCallers
    /\ oauth = HFOAuth_init
    /\ dev = NoDevAuth
    /\ scores = NoScores
    /\ \E cls \in ProviderClasses, c \in CallCredentials :
          pcall = [provider |-> AuthProvider(cls, "hf"), credentials |-> c,
                   op |-> None, ret |-> None]

AuthProvider_authenticate ==
    pcall' = [pcall EXCEPT !.op = "authenticate",
                              !.ret = Bool(ProviderAuthenticate(pcall.provider, pcall.credentials))]

AuthProvider_validate_token ==
    pcall' = [pcall EXCEPT !.op = "validate_token",
                              !.ret = Bool(ProviderValidateToken(pcall.provider, pcall.credentials))]

CallNext ==
    \/ AuthProvider_authenticate /\ UNCHANGED <<manager, mem, conc, oauth, dev, scores>>
    \/ AuthProvider_validate_token /\ UNCHANGED <<manager, mem, conc, oauth, dev, scores>>

CallSpec == CallInit /\ [][CallNext]_vars

\* ------------------------------------------------------------------ construction
\* AuthCredentials objects as the caller constructs them.  The metadata
\* attribute is a reference to a dict: mem.dicts[a] is the content of the
\* dict at address a, mem.objs[i].metadata the address held by the i-th
\* object, and mem.objs[i].given records whether the caller passed a dict.
\* Only the metadata attribute is kept; the other fields play no part here.
MaxObjects == 3

\* the metadata argument of the constructor: left out, None, a dict literal
\* written in the call, or the dict at an address the caller already holds
MetadataArgs(dicts) ==
    {[kind |-> k, addr |-> 0] : k \in {"omitted", "None", "literal"}}
      \cup {[kind |-> "held", addr |-> a] : a \in 1..Len(dicts)}

\* mutant: one module-level dict serves as the default of every instance
AuthCredentials_post_init_shared_default(metadata, dicts) ==
    IF metadata = <<>>
    THEN IF dicts = <<>> THEN <<1, <<EmptyDict>>>> ELSE <<1, dicts>>
    ELSE <<metadata[1], dicts>>

\* __post_init__: a credential whose metadata is None (<<>>) gets a new empty
\* dict; the result is the address the attribute holds and the dicts that exist
AuthCredentials_post_init(metadata, dicts) ==
    IF metadata = <<>>
    THEN <<Len(dicts) + 1, Append(dicts, EmptyDict)>>
    ELSE <<metadata[1], dicts>>

\* the generated __init__: metadata defaults to None, then __post_init__ runs
AuthCredentials_init(arg, dicts) ==
    CASE arg.kind \in {"omitted", "None"} -> AuthCredentials_post_init(<<>>, dicts)
      [] arg.kind = "literal" ->
            AuthCredentials_post_init(<<Len(dicts) + 1>>,
                                      Append(dicts, [k \in {"scope"} |-> "read"]))
      [] arg.kind = "held" -> AuthCredentials_post_init(<<arg.addr>>, dicts)

CtorInit ==
    /\ providers = <<>>
    /\ credentials = EmptyDict
    /\ heap = [r \in {} |-> None]
    /\ lastOp = Op("__init__", <<>>, None, <<>>, <<>>)
    /\ pcall = NoCall
    /\ mem = NoObjects
    /\ conc = NoCallers
    /\ oauth = HFOAuth_init
    /\ dev = NoDevAuth
    /\ scores = NoScores

Construct(arg) ==
    LET made == AuthCredentials_init(arg, mem.dicts) IN
    /\ Len(mem.objs) < MaxObjects
    /\ mem' = [objs  |-> Append(mem.objs, [metadata |-> made[1],
                                           given |-> arg.kind \notin {"omitted", "None"}]),
               dicts |-> made[2],
               last  |-> <<"AuthCredentials", Len(mem.objs) + 1>>]

\* what OAuth2Provider.refresh_token and JWTProvider.refresh_token do to the
\* i-th object: credentials.metadata["refreshed_at"] = now
Stamp(i, now) ==
    /\ mem' = [mem EXCEPT !.dicts[mem.objs[i].metadata] = DictSet(@, "refreshed_at", now),
                          !.last = <<"refresh_token", i>>]

CtorNext ==
    \/ \E arg \in MetadataArgs(mem.dicts) : Construct(arg) /\ UNCHANGED <<manager, pcall, conc, oauth, dev, scores>>
    \/ \E i \in 1..Len(mem.objs), now \in 1..MaxTime : Stamp(i, now) /\ UNCHANGED <<manager, pcall, conc, oauth, dev, scores>>

CtorSpec == CtorInit /\ [][CtorNext]_vars

\* ------------------------------------------------------------------ two callers
\* Two threads call into one AuthManager without a lock.  One runs
\* revoke_credentials("hf"), the other refresh_credentials("hf") or
\* clear_all_credentials().  A step is one read or write of a dict (atomic in
\* CPython) or one provider call; the locals of each call are kept in conc.
\* conc.overlap records that one call began while the other was under way.
\* Objects stay on the heap while a local may refer to them.
Begun(t) == t.pc \notin {"start", "done"}

ConcInit ==
    /\ lastOp = Op("__init__", <<>>, None, <<>>, <<>>)
    /\ pcall = NoCall
    /\ mem = NoObjects
    /\ oauth = HFOAuth_init
    /\ dev = NoDevAuth
    /\ scores = NoScores
    /\ \E p \in Providers, c \in CredInputs, op \in {"refresh_credentials", "clear_all_credentials"} :
          /\ p.provider_id = "hf"
          /\ ProviderAuthenticate(p, c)
          /\ providers = <<p>>
          /\ credentials = [id \in {"hf"} |-> 1]
          /\ heap = [r \in {1} |-> c]
          /\ conc = [revoke  |-> [pc |-> "start", credentials |-> <<>>, provider |-> <<>>,
                                  ok |-> FALSE, ret |-> None],
                     other   |-> [op |-> op, pc |-> "start", credentials |-> <<>>,
                                  provider |-> <<>>, ret |-> None],
                     overlap |-> FALSE]

\* line 407-409: credentials = self._credentials.get(provider_id)
revoke_get_credentials ==
    LET found == IF "hf" \in DOMAIN credentials THEN <<credentials["hf"]>> ELSE <<>> IN
    /\ conc.revoke.pc = "start"
    /\ conc' = [conc EXCEPT !.revoke.credentials = found,
                            !.revoke.pc = IF found = <<>> THEN "done" ELSE "get_provider",
                            !.revoke.ret = IF found = <<>> THEN "False" ELSE None,
                            !.overlap = @ \/ Begun(conc.other)]
    /\ UNCHANGED <<providers, credentials, heap>>

\* line 411-413: provider = self.get_provider(provider_id)
revoke_get_provider ==
    LET found == get_provider(providers, "hf") IN
    /\ conc.revoke.pc = "get_provider"
    /\ conc' = [conc EXCEPT !.revoke.provider = found,
                            !.revoke.pc = IF found = <<>> THEN "done" ELSE "revoke_token",
                            !.revoke.ret = IF found = <<>> THEN "False" ELSE None]
    /\ UNCHANGED <<providers, credentials, heap>>

\* line 415: provider.revoke_token(credentials)
revoke_call_provider ==
    LET ok == ProviderRevokeToken(conc.revoke.provider[1], heap[conc.revoke.credentials[1]]) IN
    /\ conc.revoke.pc = "revoke_token"
    /\ conc' = [conc EXCEPT !.revoke.ok = ok,
                            !.revoke.pc = IF ok THEN "del" ELSE "done",
                            !.revoke.ret = IF ok THEN None ELSE "False"]
    /\ UNCHANGED <<providers, credentials, heap>>

\* mutant: success is reported but the entry is not deleted
revoke_del_keep ==
    /\ conc.revoke.pc = "del"
    /\ conc' = [conc EXCEPT !.revoke.pc = "done", !.revoke.ret = "True"]
    /\ UNCHANGED <<providers, credentials, heap>>

\* line 416-418: del self._credentials[provider_id]; a missing key raises KeyError
revoke_del ==
    /\ conc.revoke.pc = "del"
    /\ IF "hf" \in DOMAIN credentials
       THEN /\ credentials' = DictDel(credentials, "hf")
            /\ conc' = [conc EXCEPT !.revoke.pc = "done", !.revoke.ret = "True"]
       ELSE /\ credentials' = credentials
            /\ conc' = [conc EXCEPT !.revoke.pc = "done", !.revoke.ret = "KeyError"]
    /\ UNCHANGED <<providers, heap>>

\* line 384-386: credentials = self._credentials.get(provider_id)
refresh_get_credentials ==
    LET found == IF "hf" \in DOMAIN credentials THEN <<credentials["hf"]>> ELSE <<>> IN
    /\ conc.other.op = "refresh_credentials"
    /\ conc.other.pc = "start"
    /\ conc' = [conc EXCEPT !.other.credentials = found,
                            !.other.pc = IF found = <<>> THEN "done" ELSE "get_provider",
                            !.other.ret = IF found = <<>> THEN ErrNoCredentials ELSE None,
                            !.overlap = @ \/ Begun(conc.revoke)]
    /\ UNCHANGED <<providers, credentials, heap>>

\* line 388-390: provider = self.get_provider(provider_id)
refresh_get_provider ==
    LET found == get_provider(providers, "hf") IN
    /\ conc.other.op = "refresh_credentials"
    /\ conc.other.pc = "get_provider"
    /\ conc' = [conc EXCEPT !.other.provider = found,
                            !.other.pc = IF found = <<>> THEN "done" ELSE "refresh_token",
                            !.other.ret = IF found = <<>> THEN ErrProviderNotFound ELSE None]
    /\ UNCHANGED <<providers, credentials, heap>>

\* line 392: updated_credentials = provider.refresh_token(credentials)
refresh_call_provider(now) ==
    /\ conc.other.op = "refresh_credentials"
    /\ conc.other.pc = "refresh_token"
    /\ heap' = [heap EXCEPT ![conc.other.credentials[1]] =
                   ProviderRefreshToken(conc.other.provider[1], @, now)]
    /\ conc' = [conc EXCEPT !.other.pc = "store"]
    /\ UNCHANGED <<providers, credentials>>

\* line 393-395: self._credentials[provider_id] = updated_credentials
refresh_store ==
    /\ conc.other.op = "refresh_credentials"
    /\ conc.other.pc = "store"
    /\ credentials' = DictSet(credentials, "hf", conc.other.credentials[1])
    /\ conc' = [conc EXCEPT !.other.pc = "done", !.other.ret = "True"]
    /\ UNCHANGED <<providers, heap>>

\* line 436: self._credentials.clear()
clear_step ==
    /\ conc.other.op = "clear_all_credentials"
    /\ conc.other.pc = "start"
    /\ credentials' = EmptyDict
    /\ conc' = [conc EXCEPT !.other.pc = "done",
                            !.overlap = @ \/ Begun(conc.revoke)]
    /\ UNCHANGED <<providers, heap>>

ConcNext ==
    \/ revoke_get_credentials /\ UNCHANGED <<lastOp, pcall, mem, oauth, dev, scores>>
    \/ revoke_get_provider /\ UNCHANGED <<lastOp, pcall, mem, oauth, dev, scores>>
    \/ revoke_call_provider /\ UNCHANGED <<lastOp, pcall, mem, oauth, dev, scores>>
    \/ revoke_del /\ UNCHANGED <<lastOp, pcall, mem, oauth, dev, scores>>
    \/ refresh_get_credentials /\ UNCHANGED <<lastOp, pcall, mem, oauth, dev, scores>>
    \/ refresh_get_provider /\ UNCHANGED <<lastOp, pcall, mem, oauth, dev, scores>>
    \/ \E now \in 1..MaxTime : refresh_call_provider(now) /\ UNCHANGED <<lastOp, pcall, mem, oauth, dev, scores>>
    \/ refresh_store /\ UNCHANGED <<lastOp, pcall, mem, oauth, dev, scores>>
    \/ clear_step /\ UNCHANGED <<lastOp, pcall, mem, oauth, dev, scores>>

ConcSpec == ConcInit /\ [][ConcNext]_vars

\* ------------------------------------------------------------------ HFOAuth
\* src/src/auth/hf_oauth.py.  secrets.token_urlsafe yields some value of
\* StateTokens (or Verifiers); the network answers each request with one of
\* Outcomes, of which all but "ok" make requests raise a RequestException
\* (raise_for_status on an error status, a timeout, a connection error).
\* A call is handed the outcomes of the next two requests it may send.
StateTokens == {"s1", "s2"}

Verifiers == {"v1", "v2"}

Outcomes == {"ok", "http_error", "timeout", "connection_error"}

RequestFailures == Outcomes \ {"ok"}

OutcomeSeqs == {<<a, b>> : a \in Outcomes, b \in Outcomes}

\* what a caller may pass as the state of the callback
StateArgs == {None, "", "forged"} \cup StateTokens

ErrInvalidState == "ValueError: Invalid state parameter"

Request(method, url, code_verifier) ==
    [method |-> method, url |-> url, code_verifier |-> code_verifier]

\* mutant: any state this object ever issued is accepted
HFOAuth_validate_state_any_issued(self, state) == state \in self.issued

HFOAuth_validate_state(self, state) == state = self.state

\* the result and the requests of exchange_code_for_token
HFOAuth_exchange_code_for_token(self, code, state, outcomes) ==
    IF Truthy(state) /\ ~HFOAuth_validate_state(self, state)
    THEN [ret |-> ErrInvalidState, requests |-> <<>>]
    ELSE [ret      |-> IF outcomes[1] = "ok" THEN "json" ELSE None,
          requests |-> <<Request("POST", "HF_TOKEN_URL",
                                 IF Truthy(self.code_verifier) THEN self.code_verifier ELSE None)>>]

HFOAuth_get_user_info(self, access_token, outcomes) ==
    [ret      |-> IF outcomes[1] = "ok" THEN "json" ELSE None,
     requests |-> <<Request("GET", "HF_USER_INFO_URL", None)>>]

\* mutant: a failed request is sent once more
HFOAuth_refresh_token_retries(self, refresh_token, outcomes) ==
    IF outcomes[1] = "ok"
    THEN [ret |-> "json", requests |-> <<Request("POST", "HF_TOKEN_URL", None)>>]
    ELSE [ret      |-> IF outcomes[2] = "ok" THEN "json" ELSE None,
          requests |-> <<Request("POST", "HF_TOKEN_URL", None),
                         Request("POST", "HF_TOKEN_URL", None)>>]

HFOAuth_refresh_token(self, refresh_token, outcomes) ==
    [ret      |-> IF outcomes[1] = "ok" THEN "json" ELSE None,
     requests |-> <<Request("POST", "HF_TOKEN_URL", None)>>]

HFOAuth_revoke_token(self, token, outcomes) ==
    [ret      |-> IF outcomes[1] = "ok" THEN "True" ELSE "False",
     requests |-> <<Request("POST", "HF_TOKEN_URL/revoke", None)>>]

Called(op, args, outcomes, res) ==
    [op |-> op, args |-> args, outcomes |-> outcomes, ret |-> res.ret, requests |-> res.requests]

OAuthInit ==
    /\ providers = <<>>
    /\ credentials = EmptyDict
    /\ heap = [r \in {} |-> None]
    /\ lastOp = Op("__init__", <<>>, None, <<>>, <<>>)
    /\ pcall = NoCall
    /\ mem = NoObjects
    /\ conc = NoCallers
    /\ oauth = HFOAuth_init
    /\ dev = NoDevAuth
    /\ scores = NoScores

\* get_authorization_url: _generate_state stores a new state s, and with
\* use_pkce _generate_pkce_verifier stores a new verifier v; the URL returned
\* is told by the state parameter it carries
get_authorization_url(use_pkce, s, v) ==
    oauth' = [state         |-> s,
              code_verifier |-> IF use_pkce THEN v ELSE oauth.code_verifier,
              issued        |-> oauth.issued \cup {s},
              last          |-> [op |-> "get_authorization_url", args |-> <<Bool(use_pkce)>>,
                                 outcomes |-> <<>>, ret |-> s, requests |-> <<>>]]

exchange_code_for_token(code, state, outcomes) ==
    oauth' = [oauth EXCEPT !.last =
                 Called("exchange_code_for_token", <<code, state>>, outcomes,
                        HFOAuth_exchange_code_for_token(oauth, code, state, outcomes))]

get_user_info(access_token, outcomes) ==
    oauth' = [oauth EXCEPT !.last =
                 Called("get_user_info", <<access_token>>, outcomes,
                        HFOAuth_get_user_info(oauth, access_token, outcomes))]

refresh_token(token, outcomes) ==
    oauth' = [oauth EXCEPT !.last =
                 Called("refresh_token", <<token>>, outcomes,
                        HFOAuth_refresh_token(oauth, token, outcomes))]

revoke_token(token, outcomes) ==
    oauth' = [oauth EXCEPT !.last =
                 Called("revoke_token", <<token>>, outcomes,
                        HFOAuth_revoke_token(oauth, token, outcomes))]

OAuthNext ==
    \/ \E use_pkce \in BOOLEAN, s \in StateTokens, v \in Verifiers :
          get_authorization_url(use_pkce, s, v) /\ UNCHANGED <<manager, pcall, mem, conc, dev, scores>>
    \/ \E state \in StateArgs, outcomes \in OutcomeSeqs :
          exchange_code_for_token("code", state, outcomes) /\ UNCHANGED <<manager, pcall, mem, conc, dev, scores>>
    \/ \E outcomes \in OutcomeSeqs :
          get_user_info("tok", outcomes) /\ UNCHANGED <<manager, pcall, mem, conc, dev, scores>>
    \/ \E outcomes \in OutcomeSeqs :
          refresh_token("ref", outcomes) /\ UNCHANGED <<manager, pcall, mem, conc, dev, scores>>
    \/ \E outcomes \in OutcomeSeqs :
          revoke_token("tok", outcomes) /\ UNCHANGED <<manager, pcall, mem, conc, dev, scores>>

OAuthSpec == OAuthInit /\ [][OAuthNext]_vars

\* ------------------------------------------------------------------ DevAuth
\* src/src/auth/dev_auth.py.  Time is counted in hours: dev.now is what
\* datetime.utcnow() returns, token_created_at is <<>> for None and <<t>>
\* for the time t, and token_expiry_hours is the constructor's argument.
\* username, password and debug are never read by the methods modelled.
MaxClock == 3

MaxExpiry == 2

Expiries == (-1)..MaxExpiry

DEFAULT_DEV_TOKEN == "dev_token_12345"

DevAuth_init(token_expiry_hours) ==
    [token |-> None, token_created_at |-> <<>>, is_authenticated |-> FALSE,
     token_expiry_hours |-> token_expiry_hours]

DevAuth_authenticate(self, now) ==
    [self |-> [self EXCEPT !.token = DEFAULT_DEV_TOKEN,
                           !.token_created_at = <<now>>,
                           !.is_authenticated = TRUE],
     ret  |-> "True"]

\* mutant: the token still counts at the moment it expires
DevAuth_is_token_valid_inclusive(self, now) ==
    IF ~self.is_authenticated \/ ~Truthy(self.token) \/ self.token_created_at = <<>>
    THEN FALSE
    ELSE now <= self.token_created_at[1] + self.token_expiry_hours

DevAuth_is_token_valid(self, now) ==
    IF ~self.is_authenticated \/ ~Truthy(self.token) \/ self.token_created_at = <<>>
    THEN FALSE
    ELSE now < self.token_created_at[1] + self.token_expiry_hours

DevAuth_get_token(self, now) ==
    IF DevAuth_is_token_valid(self, now) THEN self.token ELSE None

\* <<>> for None, <<h>> for the dict h of headers
DevAuth_get_auth_headers(self, now) ==
    LET token == DevAuth_get_token(self, now) IN
    IF Truthy(token)
    THEN <<[Authorization |-> <<"Bearer", token>>, X_Dev_Auth |-> "true"]>>
    ELSE <<>>

\* mutant: an expired token is not refreshed
DevAuth_refresh_token_valid_only(self, now) ==
    IF ~DevAuth_is_token_valid(self, now)
    THEN [self |-> self, ret |-> "False"]
    ELSE [self |-> [self EXCEPT !.token_created_at = <<now>>], ret |-> "True"]

DevAuth_refresh_token(self, now) ==
    IF ~self.is_authenticated
    THEN [self |-> self, ret |-> "False"]
    ELSE [self |-> [self EXCEPT !.token_created_at = <<now>>], ret |-> "True"]

DevAuth_logout(self) ==
    [self |-> [self EXCEPT !.token = None,
                           !.token_created_at = <<>>,
                           !.is_authenticated = FALSE],
     ret  |-> "True"]

\* the object after a call, the result of the call and the object before it
DevCalled(op, self, ret) ==
    [self |-> self, now |-> dev.now, last |-> [op |-> op, ret |-> ret, prev |-> dev.self]]

DevInit ==
    /\ providers = <<>>
    /\ credentials = EmptyDict
    /\ heap = [r \in {} |-> None]
    /\ lastOp = Op("__init__", <<>>, None, <<>>, <<>>)
    /\ pcall = NoCall
    /\ mem = NoObjects
    /\ conc = NoCallers
    /\ oauth = HFOAuth_init
    /\ scores = NoScores
    /\ \E h \in Expiries :
          dev = [self |-> DevAuth_init(h), now |-> 0,
                 last |-> [op |-> "__init__", ret |-> None, prev |-> DevAuth_init(h)]]

\* an hour passes
Tick ==
    /\ dev.now < MaxClock
    /\ dev' = [dev EXCEPT !.now = @ + 1,
                          !.last = [op |-> "tick", ret |-> None, prev |-> dev.self]]

dev_authenticate ==
    LET r == DevAuth_authenticate(dev.self, dev.now) IN
    dev' = DevCalled("authenticate", r.self, r.ret)

dev_get_token ==
    dev' = DevCalled("get_token", dev.self, DevAuth_get_token(dev.self, dev.now))

dev_get_auth_headers ==
    dev' = DevCalled("get_auth_headers", dev.self, DevAuth_get_auth_headers(dev.self, dev.now))

dev_is_token_valid ==
    dev' = DevCalled("is_token_valid", dev.self, Bool(DevAuth_is_token_valid(dev.self, dev.now)))

dev_refresh_token ==
    LET r == DevAuth_refresh_token(dev.self, dev.now) IN
    dev' = DevCalled("refresh_token", r.self, r.ret)

dev_logout ==
    LET r == DevAuth_logout(dev.self) IN
    dev' = DevCalled("logout", r.self, r.ret)

DevNext ==
    \/ Tick /\ UNCHANGED <<manager, pcall, mem, conc, oauth, scores>>
    \/ dev_authenticate /\ UNCHANGED <<manager, pcall, mem, conc, oauth, scores>>
    \/ dev_get_token /\ UNCHANGED <<manager, pcall, mem, conc, oauth, scores>>
    \/ dev_get_auth_headers /\ UNCHANGED <<manager, pcall, mem, conc, oauth, scores>>
    \/ dev_is_token_valid /\ UNCHANGED <<manager, pcall, mem, conc, oauth, scores>>
    \/ dev_refresh_token /\ UNCHANGED <<manager, pcall, mem, conc, oauth, scores>>
    \/ dev_logout /\ UNCHANGED <<manager, pcall, mem, conc, oauth, scores>>

DevSpec == DevInit /\ [][DevNext]_vars

\* ------------------------------------------------------------------ scores
\* src/src/app.py: register_score and the module-level list scores_database.
\* accuracy, notes_hit / notes_total * 100, is kept as the exact fraction
\* <<notes_hit * 100, notes_total>>; the timestamp of a record is left out.
MaxRecords == 2

MaxScore == 1

MaxNotes == 2

PlayerNames == {None, "", "ann"}

SongTitles == {"", "song"}

ErrNamesRequired == "Error: Player name and song title are required"

ErrInvalidScore == "Error: Invalid score values"

ScoreRecord(player_name, song_title, score, notes_hit, notes_total) ==
    [player      |-> player_name,
     song        |-> song_title,
     score       |-> score,
     accuracy    |-> IF notes_total > 0 THEN <<notes_hit * 100, notes_total>> ELSE <<0, 1>>,
     notes_hit   |-> notes_hit,
     notes_total |-> notes_total]

ScoreInit ==
    /\ providers = <<>>
    /\ credentials = EmptyDict
    /\ heap = [r \in {} |-> None]
    /\ lastOp = Op("__init__", <<>>, None, <<>>, <<>>)
    /\ pcall = NoCall
    /\ mem = NoObjects
    /\ conc = NoCallers
    /\ oauth = HFOAuth_init
    /\ dev = NoDevAuth
    /\ scores = NoScores

\* scores.last is the pair (success message, error message) the call returns
register_score(player_name, song_title, score, notes_hit, notes_total) ==
    IF ~Truthy(player_name) \/ ~Truthy(song_title)
    THEN scores' = [scores EXCEPT !.last = <<"", ErrNamesRequired>>]
    ELSE IF score < 0 \/ notes_hit < 0 \/ notes_total <= 0
    THEN scores' = [scores EXCEPT !.last = <<"", ErrInvalidScore>>]
    ELSE /\ Len(scores.db) < MaxRecords
         /\ scores' = [db   |-> Append(scores.db,
                                       ScoreRecord(player_name, song_title, score,
                                                   notes_hit, notes_total)),
                       last |-> <<"Score registered", "">>]

ScoreNext ==
    \E player_name \in PlayerNames, song_title \in SongTitles,
       score \in (-1)..MaxScore, notes_hit \in (-1)..MaxNotes, notes_total \in (-1)..MaxNotes :
        /\ register_score(player_name, song_title, score, notes_hit, notes_total)
        /\ UNCHANGED <<manager, pcall, mem, conc, oauth, dev>>

ScoreSpec == ScoreInit /\ [][ScoreNext]_vars

\* ------------------------------------------------------------------ properties
Frame == providers' = providers /\ credentials' = credentials /\ heap' = heap

\* C1: authenticate(id, cred) on a registered id whose provider accepts cred
\* returns True, and the object then stored under id is cred with exactly the
\* fields and metadata cred was passed with; nothing of the credential stored
\* before is kept.
C1_AuthenticateReplaces ==
    [][ \A id \in ProviderIds :
          ( /\ lastOp'.op = "authenticate"
            /\ lastOp'.args[1] = id
            /\ Registered(providers, id)
            /\ ProviderAuthenticate(get_provider(providers, id)[1], lastOp'.args[2]) )
          => /\ lastOp'.ret = "True"
             /\ get_credentials(credentials', heap', id) = <<lastOp'.args[2]>>
             /\ providers' = providers ]_vars

\* a stamped credential was replaced by an unstamped one
C1_Witness ==
    /\ lastOp.op = "authenticate"
    /\ lastOp.ret = "True"
    /\ lastOp.prev # <<>>
    /\ "refreshed_at" \in DOMAIN lastOp.prev[1].metadata
    /\ "refreshed_at" \notin DOMAIN heap[credentials[lastOp.args[1]]].metadata

\* C2: authenticate(id, cred) on a registered id whose provider rejects cred
\* returns False and leaves the registry, the credential map and every stored
\* object as they were; for a Basic provider "b" given a username without a
\* password, with no credential stored under "b" before, the status of "b"
\* is False afterwards.
C2_RejectedAuthenticateChangesNothing ==
    [][ \A id \in ProviderIds :
          ( /\ lastOp'.op = "authenticate"
            /\ lastOp'.args[1] = id
            /\ Registered(providers, id)
            /\ ~ProviderAuthenticate(get_provider(providers, id)[1], lastOp'.args[2]) )
          => /\ lastOp'.ret = "False"
             /\ Frame
             /\ ( /\ id = "b"
                  /\ get_provider(providers, id)[1].cls = "BasicAuthProvider"
                  /\ Truthy(lastOp'.args[2].username)
                  /\ ~Truthy(lastOp'.args[2].password)
                  /\ "b" \notin DOMAIN credentials )
                => get_authentication_status(providers', credentials', heap')["b"] = FALSE ]_vars

\* the Basic provider "b" refused a username without a password
C2_Witness ==
    /\ lastOp.op = "authenticate"
    /\ lastOp.args[1] = "b"
    /\ lastOp.ret = "False"
    /\ get_provider(providers, "b") = <<AuthProvider("BasicAuthProvider", "b")>>
    /\ Truthy(lastOp.args[2].username)
    /\ ~Truthy(lastOp.args[2].password)
    /\ "b" \notin DOMAIN credentials

\* C3: authenticate(id, cred) on an id that is not registered raises the
\* provider-not-found error, calls no provider and changes neither map, also
\* when a credential is still stored under id.
C3_AuthenticateUnregisteredRaises ==
    [][ \A id \in ProviderIds :
          ( /\ lastOp'.op = "authenticate"
            /\ lastOp'.args[1] = id
            /\ ~Registered(providers, id) )
          => /\ lastOp'.ret = ErrProviderNotFound
             /\ lastOp'.calls = <<>>
             /\ Frame ]_vars

\* the error was raised for an id that holds an orphaned credential
C3_Witness ==
    /\ lastOp.op = "authenticate"
    /\ lastOp.ret = ErrProviderNotFound
    /\ lastOp.args[1] \in DOMAIN credentials
    /\ ~Registered(providers, lastOp.args[1])

\* C4: register_provider(p) when p.provider_id is already registered raises
\* the duplicate-provider error; the registry still maps the id to the first
\* provider, list_providers and the credential map are unchanged.
C4_DuplicateRegisterRaises ==
    [][ \A p \in Providers :
          ( /\ lastOp'.op = "register_provider"
            /\ lastOp'.args[1] = p
            /\ Registered(providers, p.provider_id) )
          => /\ lastOp'.ret = ErrAlreadyRegistered
             /\ get_provider(providers', p.provider_id) = get_provider(providers, p.provider_id)
             /\ list_providers(providers') = list_providers(providers)
             /\ Frame ]_vars

\* a provider of another class was refused for a taken id
C4_Witness ==
    /\ lastOp.op = "register_provider"
    /\ lastOp.ret = ErrAlreadyRegistered
    /\ get_provider(providers, lastOp.args[1].provider_id) # <<lastOp.args[1]>>
    /\ Len(providers) = 2

\* C5 as stated: right after every successful register_provider(p) no
\* credential is stored under p.provider_id and validate_credentials is False,
\* whatever happened before.
C5_Original ==
    (lastOp.op = "register_provider" /\ lastOp.ret = None)
    => /\ lastOp.args[1].provider_id \notin DOMAIN credentials
       /\ ~validate_credentials(providers, credentials, heap, lastOp.args[1].provider_id)

\* C5 amended: a successful register_provider(p) leaves the credential map as
\* it was.  If no credential was stored under p.provider_id, none is stored
\* afterwards, and validate_credentials(id) returns False for as long as none
\* is, which only a successful authenticate on id ends; a credential left
\* under the id by an earlier unregister_provider stays stored, and
\* validate_credentials(id) is then p's validate_token of it.
C5_RegisterKeepsCredentials ==
    [][ \A id \in ProviderIds :
          /\ ( /\ lastOp'.op = "register_provider"
               /\ lastOp'.ret = None
               /\ lastOp'.args[1].provider_id = id )
             => /\ credentials' = credentials
                /\ heap' = heap
                /\ get_provider(providers', id) = <<lastOp'.args[1]>>
                /\ id \notin DOMAIN credentials
                   => ~validate_credentials(providers', credentials', heap', id)
                /\ id \in DOMAIN credentials
                   => validate_credentials(providers', credentials', heap', id)
                        = ProviderValidateToken(lastOp'.args[1], heap[credentials[id]])
          /\ (id \notin DOMAIN credentials /\ id \in DOMAIN credentials')
             => /\ lastOp'.op = "authenticate"
                /\ lastOp'.args[1] = id
                /\ lastOp'.ret = "True"
          /\ ( /\ lastOp'.op = "validate_credentials"
               /\ lastOp'.args[1] = id
               /\ id \notin DOMAIN credentials )
             => lastOp'.ret = "False" ]_vars

\* an id was registered again, as another kind of provider, after its
\* credential had been revoked or cleared
C5_Witness ==
    /\ lastOp.op = "register_provider"
    /\ lastOp.ret = None
    /\ lastOp.prev = <<>>
    /\ lastOp.args[1] = AuthProvider("BasicAuthProvider", "hf")
    /\ "b" \in DOMAIN credentials
    /\ ~validate_credentials(providers, credentials, heap, "hf")

\* C6 as stated: in every reachable state the keys of the credential map are
\* keys of the provider registry.
C6_Original == DOMAIN credentials \subseteq RegisteredIds(providers)

\* C6 amended: a credential is only ever stored under an id that is registered
\* at that moment, and every operation except unregister_provider keeps the
\* keys of the credential map within the keys of the registry;
\* unregister_provider(id) on an id that holds a credential leaves that
\* credential stored under the unregistered id.
C6_OnlyUnregisterOrphans ==
    [][ /\ ( /\ lastOp'.op \in {"authenticate", "refresh_credentials"}
             /\ lastOp'.ret = "True" )
           => /\ lastOp'.args[1] \in DOMAIN credentials'
              /\ Registered(providers', lastOp'.args[1])
        /\ \A id \in ProviderIds :
             (id \notin DOMAIN credentials /\ id \in DOMAIN credentials')
             => /\ lastOp'.op = "authenticate"
                /\ lastOp'.args[1] = id
                /\ Registered(providers', id)
        /\ ( /\ lastOp'.op # "unregister_provider"
             /\ DOMAIN credentials \subseteq RegisteredIds(providers) )
           => DOMAIN credentials' \subseteq RegisteredIds(providers')
        /\ ( /\ lastOp'.op = "unregister_provider"
             /\ lastOp'.args[1] \in DOMAIN credentials
             /\ Registered(providers, lastOp'.args[1]) )
           => /\ lastOp'.args[1] \in DOMAIN credentials'
              /\ ~Registered(providers', lastOp'.args[1]) ]_vars

\* unregister_provider has just orphaned a credential
C6_Witness ==
    /\ lastOp.op = "unregister_provider"
    /\ lastOp.ret = "True"
    /\ lastOp.args[1] \in DOMAIN credentials
    /\ ~Registered(providers, lastOp.args[1])

\* C7: unregister_provider(id) returns True exactly when id was registered and
\* then removes that registry entry only; it returns False and changes nothing
\* otherwise.  Either way the credential map, the stored objects and the other
\* registry entries, in their order, are unchanged.
C7_UnregisterRemovesOnlyProvider ==
    [][ \A id \in ProviderIds :
          (lastOp'.op = "unregister_provider" /\ lastOp'.args[1] = id)
          => /\ lastOp'.ret = Bool(Registered(providers, id))
             /\ ~Registered(providers', id)
             /\ \A j \in ProviderIds \ {id} :
                  get_provider(providers', j) = get_provider(providers, j)
             /\ list_providers(providers')
                  = SelectSeq(list_providers(providers), LAMBDA j : j # id)
             /\ ~Registered(providers, id) => providers' = providers
             /\ credentials' = credentials
             /\ heap' = heap ]_vars

\* a provider was removed while its credential and another provider stay
C7_Witness ==
    /\ lastOp.op = "unregister_provider"
    /\ lastOp.ret = "True"
    /\ lastOp.prev # <<>>
    /\ get_credentials(credentials, heap, lastOp.args[1]) = lastOp.prev
    /\ Len(providers) = 1

\* C8: when authenticate(id, cred) returns True, validate_credentials(id) is
\* True in the state it leaves, and a validate_credentials(id) made as the very
\* next call returns True.
C8_ValidAfterAuthenticate ==
    [][ /\ (lastOp'.op = "authenticate" /\ lastOp'.ret = "True")
           => validate_credentials(providers', credentials', heap', lastOp'.args[1])
        /\ ( /\ lastOp.op = "authenticate"
             /\ lastOp.ret = "True"
             /\ lastOp'.op = "validate_credentials"
             /\ lastOp'.args[1] = lastOp.args[1] )
           => /\ lastOp'.ret = "True"
              /\ lastOp'.calls = <<<<lastOp.args[1], "validate_token">>>> ]_vars

\* a Basic provider accepted a credential, and it validates
C8_Witness ==
    /\ lastOp.op = "authenticate"
    /\ lastOp.ret = "True"
    /\ get_provider(providers, lastOp.args[1])
         = <<AuthProvider("BasicAuthProvider", lastOp.args[1])>>
    /\ lastOp.prev = <<>>
    /\ validate_credentials(providers, credentials, heap, lastOp.args[1])

\* C9: when revoke_credentials(id) returns True the credential stored under id
\* is gone; while none is stored validate_credentials(id) returns False, and
\* only a successful authenticate on id stores one again.
C9_RevokedStaysInvalid ==
    [][ \A id \in ProviderIds :
          /\ ( /\ lastOp'.op = "revoke_credentials"
               /\ lastOp'.args[1] = id
               /\ lastOp'.ret = "True" )
             => /\ id \in DOMAIN credentials
                /\ id \notin DOMAIN credentials'
                /\ ~validate_credentials(providers', credentials', heap', id)
          /\ ( /\ id \notin DOMAIN credentials
               /\ ~( /\ lastOp'.op = "authenticate"
                     /\ lastOp'.args[1] = id
                     /\ lastOp'.ret = "True" ) )
             => /\ id \notin DOMAIN credentials'
                /\ ( lastOp'.op = "validate_credentials" /\ lastOp'.args[1] = id )
                   => lastOp'.ret = "False"
                /\ lastOp'.op = "get_authentication_status"
                   => \A j \in (DOMAIN lastOp'.ret) \cap {id} : ~lastOp'.ret[j] ]_vars

\* a revoke succeeded on an object that the other id still holds
C9_Witness ==
    /\ lastOp.op = "revoke_credentials"
    /\ lastOp.ret = "True"
    /\ lastOp.args[1] \notin DOMAIN credentials
    /\ \E j \in DOMAIN credentials : <<heap[credentials[j]]>> = lastOp.prev

\* C10: revoke_credentials(id) returns False, calls no provider and changes
\* neither map when no credential is stored under id or id is not registered.
C10_RevokeWithoutCredentialOrProvider ==
    [][ \A id \in ProviderIds :
          ( /\ lastOp'.op = "revoke_credentials"
            /\ lastOp'.args[1] = id
            /\ (id \notin DOMAIN credentials \/ ~Registered(providers, id)) )
          => /\ lastOp'.ret = "False"
             /\ lastOp'.calls = <<>>
             /\ Frame ]_vars

\* revoke refused to touch an orphaned credential
C10_Witness ==
    /\ lastOp.op = "revoke_credentials"
    /\ lastOp.ret = "False"
    /\ lastOp.prev # <<>>
    /\ lastOp.args[1] \in DOMAIN credentials
    /\ ~Registered(providers, lastOp.args[1])

\* C11: refresh_credentials(id) raises the credentials-not-found error when id
\* is registered but holds no credential, and the provider-not-found error
\* when a credential is stored under id but id is not registered; either way
\* no provider is called and neither map changes.
C11_RefreshErrors ==
    [][ \A id \in ProviderIds :
          (lastOp'.op = "refresh_credentials" /\ lastOp'.args[1] = id)
          => /\ (Registered(providers, id) /\ id \notin DOMAIN credentials)
                => /\ lastOp'.ret = ErrNoCredentials
                   /\ lastOp'.calls = <<>>
                   /\ Frame
             /\ (~Registered(providers, id) /\ id \in DOMAIN credentials)
                => /\ lastOp'.ret = ErrProviderNotFound
                   /\ lastOp'.calls = <<>>
                   /\ Frame ]_vars

\* refresh was refused for a registered id that holds no credential
C11_Witness ==
    /\ lastOp.op = "refresh_credentials"
    /\ lastOp.ret = ErrNoCredentials
    /\ Registered(providers, lastOp.args[1])
    /\ lastOp.prev = <<>>

\* C12 as stated: refresh_credentials(id) on an id with neither a provider nor
\* a stored credential, as a never registered id is, raises the
\* provider-not-found error.
C12_Original ==
    ( /\ lastOp.op = "refresh_credentials"
      /\ ~Registered(providers, lastOp.args[1])
      /\ lastOp.args[1] \notin DOMAIN credentials )
    => lastOp.ret = ErrProviderNotFound

\* the fields of a credential other than its metadata
TokenFields(c) ==
    <<c.provider_type, c.access_token, c.refresh_token, c.username,
      c.password, c.api_key, c.expires_in>>

\* C13: refresh_credentials(id) on an id with a registered provider and a
\* stored credential returns True, stores under id what the provider's
\* refresh_token returned, and leaves id with a credential for which
\* validate_credentials(id) answers as it did before.
C13_RefreshKeepsAuthenticated ==
    [][ \A id \in ProviderIds :
          ( /\ lastOp'.op = "refresh_credentials"
            /\ lastOp'.args[1] = id
            /\ Registered(providers, id)
            /\ id \in DOMAIN credentials )
          => /\ lastOp'.ret = "True"
             /\ lastOp'.calls = <<<<id, "refresh_token">>>>
             /\ \E now \in 1..MaxTime :
                  get_credentials(credentials', heap', id)
                    = <<ProviderRefreshToken(get_provider(providers, id)[1],
                                             heap[credentials[id]], now)>>
             /\ providers' = providers
             /\ validate_credentials(providers', credentials', heap', id)
                  = validate_credentials(providers, credentials, heap, id) ]_vars

\* a refresh changed the stored credential, and it still validates
C13_Witness ==
    /\ lastOp.op = "refresh_credentials"
    /\ lastOp.ret = "True"
    /\ get_credentials(credentials, heap, lastOp.args[1]) # lastOp.prev
    /\ validate_credentials(providers, credentials, heap, lastOp.args[1])

\* C14: under a Basic or API-key provider refresh_credentials(id) leaves the
\* stored credential as it was, token fields and metadata alike, however often
\* it is called.
C14_RefreshIdentityForBasicAndApiKey ==
    [][ \A id \in ProviderIds :
          ( /\ lastOp'.op = "refresh_credentials"
            /\ lastOp'.args[1] = id
            /\ Registered(providers, id)
            /\ id \in DOMAIN credentials
            /\ get_provider(providers, id)[1].cls \in {"BasicAuthProvider", "APIKeyProvider"} )
          => /\ get_credentials(credentials', heap', id) = get_credentials(credentials, heap, id)
             /\ Frame ]_vars

\* an API-key provider refreshed a credential that keeps its metadata
C14_Witness ==
    /\ lastOp.op = "refresh_credentials"
    /\ lastOp.ret = "True"
    /\ get_provider(providers, lastOp.args[1])
         = <<AuthProvider("APIKeyProvider", lastOp.args[1])>>
    /\ get_credentials(credentials, heap, lastOp.args[1]) = lastOp.prev
    /\ DOMAIN lastOp.prev[1].metadata = {"scope"}

\* C15: under an OAuth2 or JWT provider a successful refresh_credentials(id)
\* leaves the stored credential with a refreshed_at key in its metadata, with
\* the access token and every other field outside the metadata unchanged, and
\* with every other metadata key as it was.
C15_RefreshStampsMetadata ==
    [][ \A id \in ProviderIds :
          ( /\ lastOp'.op = "refresh_credentials"
            /\ lastOp'.args[1] = id
            /\ lastOp'.ret = "True"
            /\ get_provider(providers, id)[1].cls \in {"OAuth2Provider", "JWTProvider"} )
          => LET old == heap[credentials[id]]
                 new == heap'[credentials'[id]]
             IN /\ "refreshed_at" \in DOMAIN new.metadata
                /\ new.metadata["refreshed_at"] \in 1..MaxTime
                /\ TokenFields(new) = TokenFields(old)
                /\ DOMAIN new.metadata = (DOMAIN old.metadata) \cup {"refreshed_at"}
                /\ \A k \in (DOMAIN old.metadata) \ {"refreshed_at"} :
                      new.metadata[k] = old.metadata[k] ]_vars

\* a JWT provider stamped a credential that already carried a metadata key
C15_Witness ==
    /\ lastOp.op = "refresh_credentials"
    /\ lastOp.ret = "True"
    /\ get_provider(providers, lastOp.args[1])
         = <<AuthProvider("JWTProvider", lastOp.args[1])>>
    /\ DOMAIN lastOp.prev[1].metadata = {"scope"}
    /\ DOMAIN heap[credentials[lastOp.args[1]]].metadata = {"scope", "refreshed_at"}

\* C16: after clear_all_credentials() the status of every provider still
\* registered is False, in the state it leaves and in the answer of a
\* get_authentication_status() made as the next call; for an id without a
\* credential the status stays False until an authenticate on it succeeds.
C16_StatusFalseAfterClear ==
    [][ /\ lastOp'.op = "clear_all_credentials"
           => LET status == get_authentication_status(providers', credentials', heap')
              IN /\ DOMAIN status = RegisteredIds(providers)
                 /\ \A id \in DOMAIN status : status[id] = FALSE
        /\ (lastOp.op = "clear_all_credentials" /\ lastOp'.op = "get_authentication_status")
           => /\ DOMAIN lastOp'.ret = RegisteredIds(providers)
              /\ \A id \in DOMAIN lastOp'.ret : lastOp'.ret[id] = FALSE
        /\ \A id \in ProviderIds :
             ( /\ id \notin DOMAIN credentials
               /\ lastOp'.op = "get_authentication_status"
               /\ Registered(providers, id) )
             => lastOp'.ret[id] = FALSE
        /\ \A id \in ProviderIds :
             ( /\ id \notin DOMAIN credentials
               /\ id \in DOMAIN credentials' )
             => /\ lastOp'.op = "authenticate"
                /\ lastOp'.args[1] = id
                /\ lastOp'.ret = "True" ]_vars

\* both providers held a credential when everything was cleared
C16_Witness ==
    /\ lastOp.op = "clear_all_credentials"
    /\ Len(lastOp.prev) = 2
    /\ Len(providers) = 2
    /\ get_authentication_status(providers, credentials, heap)
         = [id \in ProviderIds |-> FALSE]

\* C17: clear_all_credentials() raises nothing, leaves the credential map
\* empty, the credentials of unregistered ids included, and leaves the
\* provider registry as it was.
C17_ClearEmptiesCredentialsOnly ==
    [][ lastOp'.op = "clear_all_credentials"
        => /\ lastOp'.ret = None
           /\ lastOp'.calls = <<>>
           /\ credentials' = EmptyDict
           /\ DOMAIN heap' = {}
           /\ \A id \in ProviderIds : get_credentials(credentials', heap', id) = <<>>
           /\ providers' = providers ]_vars

\* an orphaned credential was cleared while a provider stays registered
C17_Witness ==
    /\ lastOp.op = "clear_all_credentials"
    /\ \E k \in 1..Len(lastOp.prev) : ~Registered(providers, lastOp.prev[k])
    /\ Len(providers) = 1
    /\ credentials = EmptyDict

\* C18: get_authentication_status() returns a mapping whose keys are exactly
\* the registered provider ids and whose value for an id is what
\* validate_credentials(id) returns in that state, as the operation's own
\* answer shows when it is called next.
C18_StatusMatchesValidate ==
    [][ /\ lastOp'.op = "get_authentication_status"
           => /\ DOMAIN lastOp'.ret = RegisteredIds(providers)
              /\ \A id \in DOMAIN lastOp'.ret :
                   lastOp'.ret[id] =
                     ( /\ id \in DOMAIN credentials
                       /\ ProviderValidateToken(get_provider(providers, id)[1],
                                                heap[credentials[id]]) )
              /\ Frame
        /\ ( /\ lastOp.op = "get_authentication_status"
             /\ lastOp'.op = "validate_credentials" )
           => /\ lastOp'.args[1] \in DOMAIN lastOp.ret
                 => lastOp'.ret = Bool(lastOp.ret[lastOp'.args[1]])
              /\ lastOp'.args[1] \notin DOMAIN lastOp.ret
                 => lastOp'.ret = "False" ]_vars

\* the sweep left out an orphaned credential and covered a provider without one
C18_Witness ==
    /\ lastOp.op = "get_authentication_status"
    /\ \E id \in DOMAIN credentials : id \notin DOMAIN lastOp.ret
    /\ \E id \in DOMAIN lastOp.ret : id \notin DOMAIN credentials

\* C19: validate_credentials(id) raises nothing: it returns False without
\* calling a provider when no credential is stored under id or id is not
\* registered, and otherwise returns what the registered provider's
\* validate_token says of the stored credential; nothing is changed.
C19_ValidateNeverRaises ==
    [][ \A id \in ProviderIds :
          (lastOp'.op = "validate_credentials" /\ lastOp'.args[1] = id)
          => /\ lastOp'.ret \in {"True", "False"}
             /\ (id \notin DOMAIN credentials \/ ~Registered(providers, id))
                => /\ lastOp'.ret = "False"
                   /\ lastOp'.calls = <<>>
             /\ (id \in DOMAIN credentials /\ Registered(providers, id))
                => /\ lastOp'.ret = Bool(ProviderValidateToken(get_provider(providers, id)[1],
                                                               heap[credentials[id]]))
                   /\ lastOp'.calls = <<<<id, "validate_token">>>>
             /\ Frame ]_vars

\* a credential whose provider is gone was reported invalid
C19_Witness ==
    /\ lastOp.op = "validate_credentials"
    /\ lastOp.ret = "False"
    /\ lastOp.prev # <<>>
    /\ ~Registered(providers, lastOp.args[1])

\* C20: an operation other than register_provider that targets an id which is
\* not registered, as a never registered id is, returns False or raises the
\* provider-not-found or credentials-not-found error; it registers nothing
\* under the id and leaves what is stored under it as it was, which for a
\* never registered id is nothing.
C20_UnregisteredNeverSucceeds ==
    [][ \A id \in ProviderIds :
          ( /\ lastOp'.op \in {"unregister_provider", "authenticate", "validate_credentials",
                               "refresh_credentials", "revoke_credentials"}
            /\ lastOp'.args[1] = id
            /\ ~Registered(providers, id) )
          => /\ lastOp'.ret \in {"False", ErrProviderNotFound, ErrNoCredentials}
             /\ lastOp'.op = "authenticate" => lastOp'.ret = ErrProviderNotFound
             /\ lastOp'.op \in {"unregister_provider", "validate_credentials", "revoke_credentials"}
                => lastOp'.ret = "False"
             /\ lastOp'.calls = <<>>
             /\ ~Registered(providers', id)
             /\ get_credentials(credentials', heap', id) = get_credentials(credentials, heap, id)
             /\ id \notin DOMAIN credentials => id \notin DOMAIN credentials' ]_vars

\* unregistering an id that has nothing, next to a provider that holds a credential
C20_Witness ==
    /\ lastOp.op = "unregister_provider"
    /\ lastOp.ret = "False"
    /\ lastOp.prev = <<>>
    /\ ~Registered(providers, lastOp.args[1])
    /\ \E j \in DOMAIN credentials : Registered(providers, j)

\* C21: lifecycle of an OAuth2 provider registered under "hf": authenticate
\* with a credential holding only an access token returns True and
\* validate_credentials("hf") is then true; refresh_credentials("hf") on the
\* stored credential returns True and its metadata then contains
\* refreshed_at; revoke_credentials("hf") returns True and
\* validate_credentials("hf") is then false.
C21_OAuth2Lifecycle ==
    [][ ( /\ get_provider(providers, "hf") = <<AuthProvider("OAuth2Provider", "hf")>>
          /\ lastOp'.op \in {"authenticate", "refresh_credentials", "revoke_credentials"}
          /\ lastOp'.args[1] = "hf" )
        => /\ ( /\ lastOp'.op = "authenticate"
                /\ lastOp'.args[2] =
                     AuthCredentials("oauth2", "tok-1", None, None, None, None, None, <<>>) )
              => /\ lastOp'.ret = "True"
                 /\ validate_credentials(providers', credentials', heap', "hf")
           /\ ( /\ lastOp'.op = "refresh_credentials"
                /\ "hf" \in DOMAIN credentials )
              => /\ lastOp'.ret = "True"
                 /\ "hf" \in DOMAIN credentials'
                 /\ "refreshed_at" \in DOMAIN heap'[credentials'["hf"]].metadata
           /\ ( /\ lastOp'.op = "revoke_credentials"
                /\ "hf" \in DOMAIN credentials )
              => /\ lastOp'.ret = "True"
                 /\ ~validate_credentials(providers', credentials', heap', "hf") ]_vars

\* the end of the trace: the credential revoked under the OAuth2 provider "hf"
\* holds only the access token and the refresh stamp
C21_Witness ==
    /\ providers = <<AuthProvider("OAuth2Provider", "hf")>>
    /\ lastOp.op = "revoke_credentials"
    /\ lastOp.args = <<"hf">>
    /\ lastOp.ret = "True"
    /\ lastOp.prev # <<>>
    /\ lastOp.prev[1].access_token = "tok-1"
    /\ lastOp.prev[1].refresh_token = None
    /\ "refreshed_at" \in DOMAIN lastOp.prev[1].metadata
    /\ credentials = EmptyDict

\* the presence predicate of a provider class: a field is present when it is
\* neither None nor the empty string
C22_Present(s) == s \notin {None, ""}

C22_Presence(cls, c) ==
    CASE cls \in {"OAuth2Provider", "JWTProvider"} -> C22_Present(c.access_token)
      [] cls = "BasicAuthProvider" -> C22_Present(c.username) /\ C22_Present(c.password)
      [] cls = "APIKeyProvider" -> C22_Present(c.api_key)

\* C22: for each of the four provider classes and every credential, whatever
\* combination of present, absent or empty fields it has, authenticate and
\* validate_token return a boolean (they do not raise), both return exactly
\* the presence predicate of the class (access token for OAuth2 and JWT,
\* username and password for Basic, api key for API-key), so
\* authenticate(c) = validate_token(c), and an empty string counts as absent.
C22_ProviderPredicates ==
    /\ ProviderAuthenticate(pcall.provider, pcall.credentials)
         = ProviderValidateToken(pcall.provider, pcall.credentials)
    /\ pcall.op \in {"authenticate", "validate_token"}
         => /\ pcall.ret \in {"True", "False"}
            /\ pcall.ret = Bool(C22_Presence(pcall.provider.cls, pcall.credentials))

\* validate_token of the Basic provider has refused a credential whose
\* username is present and whose password is the empty string
C22_Witness ==
    /\ pcall.op = "validate_token"
    /\ pcall.provider.cls = "BasicAuthProvider"
    /\ pcall.credentials.username = "x"
    /\ pcall.credentials.password = ""
    /\ pcall.ret = "False"

\* C23: revoke_token of each of the four provider classes reports success on
\* every credential, so revoke_credentials(id) returns True exactly when id
\* has both a registered provider and a stored credential, and then the
\* credential under id is deleted; it never asks the provider and returns
\* False, so a call that returns False made no provider call and changed
\* nothing.
C23_RevokeSucceedsIffBoth ==
    [][ \A id \in ProviderIds :
          ( /\ lastOp'.op = "revoke_credentials"
            /\ lastOp'.args[1] = id )
          => /\ \A p \in Providers, r \in DOMAIN heap : ProviderRevokeToken(p, heap[r])
             /\ lastOp'.ret \in {"True", "False"}
             /\ lastOp'.ret = "True"
                  <=> (Registered(providers, id) /\ id \in DOMAIN credentials)
             /\ lastOp'.ret = "True"
                  => /\ id \notin DOMAIN credentials'
                     /\ lastOp'.calls = <<<<id, "revoke_token">>>>
             /\ lastOp'.ret = "False"
                  => /\ lastOp'.calls = <<>>
                     /\ Frame ]_vars

\* revoke_credentials has returned True under a Basic provider, a class that
\* has nothing to revoke
C23_Witness ==
    /\ lastOp.op = "revoke_credentials"
    /\ lastOp.ret = "True"
    /\ \E i \in 1..Len(providers) : /\ providers[i].provider_id = lastOp.args[1]
                                    /\ providers[i].cls = "BasicAuthProvider"
    /\ lastOp.args[1] \notin DOMAIN credentials

\* C24: the read operations validate_credentials, get_authentication_status,
\* get_credentials, get_provider and list_providers leave the provider
\* registry, the credential map and every field of every stored credential
\* unchanged, and the provider's authenticate and validate_token, called by
\* the manager, do not change the credential they are handed: authenticate
\* stores the object with the fields it was passed with (or stores nothing)
\* and leaves the registry and every other stored credential as they were.
C24_ReadsChangeNothing ==
    [][ /\ lastOp'.op \in {"validate_credentials", "get_authentication_status",
                           "get_credentials", "get_provider", "list_providers"}
           => Frame
        /\ lastOp'.op = "authenticate"
           => /\ providers' = providers
              /\ \A b \in DOMAIN credentials' :
                    heap'[credentials'[b]] =
                       IF b = lastOp'.args[1] /\ lastOp'.ret = "True"
                       THEN lastOp'.args[2]
                       ELSE heap[credentials[b]]
              /\ lastOp'.ret # "True" => Frame ]_vars

\* validate_credentials has asked the provider about a stored credential
\* that carries a refresh stamp, and found it valid
C24_Witness ==
    /\ lastOp.op = "validate_credentials"
    /\ lastOp.calls # <<>>
    /\ lastOp.ret = "True"
    /\ lastOp.args[1] \in DOMAIN credentials
    /\ "refreshed_at" \in DOMAIN heap[credentials[lastOp.args[1]]].metadata
    /\ heap[credentials[lastOp.args[1]]] = lastOp.prev[1]

\* C25: every credential has a metadata mapping from construction on, also
\* when metadata is omitted or passed as None; two credentials constructed
\* without metadata never share one mapping, so stamping refreshed_at into
\* one of them never shows in the other.
C25_MetadataOwnMapping ==
    [][ /\ \A i \in 1..Len(mem'.objs) :
              /\ mem'.objs[i].metadata \in 1..Len(mem'.dicts)
              /\ ~mem'.objs[i].given /\ i > Len(mem.objs)
                   => mem'.dicts[mem'.objs[i].metadata] = EmptyDict
        /\ \A i, j \in 1..Len(mem'.objs) :
              (i # j /\ ~mem'.objs[i].given /\ ~mem'.objs[j].given)
              => /\ mem'.objs[i].metadata # mem'.objs[j].metadata
                 /\ (mem'.last = <<"refresh_token", i>> /\ j <= Len(mem.objs))
                      => mem'.dicts[mem'.objs[j].metadata] = mem.dicts[mem.objs[j].metadata] ]_vars

\* of two credentials constructed without metadata, the first carries a
\* refresh stamp and the second has an empty mapping
C25_Witness ==
    /\ Len(mem.objs) >= 2
    /\ ~mem.objs[1].given
    /\ ~mem.objs[2].given
    /\ mem.last = <<"refresh_token", 1>>
    /\ "refreshed_at" \in DOMAIN mem.dicts[mem.objs[1].metadata]
    /\ mem.dicts[mem.objs[2].metadata] = EmptyDict

\* C26: when the two calls do not overlap (every manager operation atomic),
\* a revoke_credentials("hf") that returned True leaves no credential stored
\* under "hf" and its delete never fails.  A credential stored under "hf"
\* after revoke returned True arises only when revoke overlapped with a
\* refresh_credentials("hf") that stored its result afterwards, and the
\* failing delete (KeyError) only when revoke overlapped with
\* clear_all_credentials().
C26_BadOnlyWhenInterleaved ==
    /\ (conc.revoke.ret = "True" /\ "hf" \in DOMAIN credentials)
         => /\ conc.overlap
            /\ conc.other.op = "refresh_credentials"
            /\ conc.other.ret = "True"
    /\ conc.revoke.ret = "KeyError"
         => /\ conc.overlap
            /\ conc.other.op = "clear_all_credentials"
            /\ conc.other.pc = "done"

\* revoke returned True and the credential is stored under "hf" again: the
\* refresh that read it before the delete stored it after
C26_Witness ==
    /\ conc.overlap
    /\ conc.revoke.ret = "True"
    /\ conc.other.op = "refresh_credentials"
    /\ conc.other.ret = "True"
    /\ "hf" \in DOMAIN credentials

\* revoke's delete failed: clear_all_credentials ran between its read and its delete
C26_WitnessDeleteFails ==
    /\ conc.overlap
    /\ conc.revoke.ret = "KeyError"
    /\ conc.other.op = "clear_all_credentials"

\* C27: each of exchange_code_for_token, get_user_info, refresh_token and
\* revoke_token of HFOAuth sends at most one HTTP request per call; when that
\* request fails or times out the call ends with None (False for
\* revoke_token), not with a raised error and not with a second request.
C27_OneRequestNoRetry ==
    oauth.last.op \in {"exchange_code_for_token", "get_user_info", "refresh_token", "revoke_token"}
    => /\ Len(oauth.last.requests) <= 1
       /\ (oauth.last.requests # <<>> /\ oauth.last.outcomes[1] \in RequestFailures)
            => oauth.last.ret = IF oauth.last.op = "revoke_token" THEN "False" ELSE None

\* refresh_token ran into a timeout, sent one request and returned None,
\* although the next request would have succeeded
C27_Witness ==
    /\ oauth.last.op = "refresh_token"
    /\ oauth.last.outcomes = <<"timeout", "ok">>
    /\ Len(oauth.last.requests) = 1
    /\ oauth.last.ret = None

\* C30: exchange_code_for_token called with a non-empty state sends the token
\* request only if that state equals the state stored by the most recent
\* get_authorization_url call; with any other value (a state of an earlier
\* call, or any state before a URL was generated) it raises the invalid-state
\* ValueError and sends no request.  Only get_authorization_url changes the
\* stored state.
C30_StateCheckedBeforeRequest ==
    [][ /\ oauth'.state # oauth.state
           => /\ oauth'.last.op = "get_authorization_url"
              /\ oauth'.last.ret = oauth'.state
        /\ ( /\ oauth'.last.op = "exchange_code_for_token"
             /\ Truthy(oauth'.last.args[2]) )
           => IF oauth'.last.args[2] = oauth.state
              THEN /\ Len(oauth'.last.requests) = 1
                   /\ oauth'.last.ret # ErrInvalidState
              ELSE /\ oauth'.last.requests = <<>>
                   /\ oauth'.last.ret = ErrInvalidState ]_vars

\* a state issued by an earlier get_authorization_url call, replaced since,
\* was rejected without a request
C30_Witness ==
    /\ oauth.last.op = "exchange_code_for_token"
    /\ oauth.last.args[2] \in oauth.issued
    /\ oauth.last.args[2] # oauth.state
    /\ oauth.last.ret = ErrInvalidState
    /\ oauth.last.requests = <<>>

\* a state supplied before any authorization URL was generated was rejected
C30_WitnessBeforeUrl ==
    /\ oauth.last.op = "exchange_code_for_token"
    /\ oauth.state = None
    /\ oauth.issued = {}
    /\ oauth.last.ret = ErrInvalidState
    /\ oauth.last.requests = <<>>

\* C28: unregister_provider(id) on an id that holds a credential leaves the
\* credential stored.  While id is unregistered and holds a credential,
\* get_credentials(id) returns it, validate_credentials(id) and
\* revoke_credentials(id) return False, refresh_credentials(id) and
\* authenticate(id, ...) raise the provider-not-found error, all of them
\* changing nothing, id is absent from get_authentication_status(), and the
\* only operation after which no credential is stored under id is
\* clear_all_credentials().
C28_OrphanedCredential ==
    [][ \A id \in ProviderIds :
          /\ ( /\ lastOp'.op = "unregister_provider"
               /\ lastOp'.args[1] = id
               /\ Registered(providers, id)
               /\ id \in DOMAIN credentials )
             => /\ lastOp'.ret = "True"
                /\ ~Registered(providers', id)
                /\ credentials' = credentials
                /\ heap' = heap
          /\ ( /\ ~Registered(providers, id)
               /\ id \in DOMAIN credentials )
             => /\ id \notin DOMAIN credentials' => lastOp'.op = "clear_all_credentials"
                /\ lastOp'.op = "get_authentication_status"
                     => id \notin DOMAIN lastOp'.ret
                /\ ( /\ lastOp'.op \in {"get_credentials", "validate_credentials",
                                        "revoke_credentials", "refresh_credentials",
                                        "authenticate"}
                     /\ lastOp'.args[1] = id )
                   => /\ Frame
                      /\ lastOp'.calls = <<>>
                      /\ lastOp'.op = "get_credentials"
                           => lastOp'.ret = <<heap[credentials[id]]>>
                      /\ lastOp'.op \in {"validate_credentials", "revoke_credentials"}
                           => lastOp'.ret = "False"
                      /\ lastOp'.op \in {"refresh_credentials", "authenticate"}
                           => lastOp'.ret = ErrProviderNotFound ]_vars

\* get_credentials returned the credential of an id whose provider was
\* unregistered
C28_Witness ==
    /\ lastOp.op = "get_credentials"
    /\ ~Registered(providers, lastOp.args[1])
    /\ lastOp.args[1] \in DOMAIN credentials
    /\ lastOp.ret = <<heap[credentials[lastOp.args[1]]]>>
    /\ Truthy(lastOp.ret[1].access_token)

\* C29 as stated: for distinct ids a and b, authenticate(a, ...),
\* refresh_credentials(a) and revoke_credentials(a) leave the credential
\* stored under b, all its fields and its metadata, and the provider registry
\* unchanged, also when the same object is stored under a and b.
C29_Original ==
    [][ \A a \in ProviderIds, b \in ProviderIds :
          ( /\ a # b
            /\ lastOp'.op \in {"authenticate", "refresh_credentials", "revoke_credentials"}
            /\ lastOp'.args[1] = a
            /\ b \in DOMAIN credentials )
          => /\ providers' = providers
             /\ b \in DOMAIN credentials'
             /\ heap'[credentials'[b]] = heap[credentials[b]] ]_vars

\* the session is authenticated and unexpired: the time of the last
\* authenticate or refresh plus the expiry lies strictly after now
C31_Live(d) ==
    /\ d.self.is_authenticated
    /\ d.now < d.self.token_created_at[1] + d.self.token_expiry_hours

\* C31: get_token returns the fixed development token, and get_auth_headers
\* the headers carrying it, exactly while the session is authenticated and
\* the current time is strictly before the last authenticate/refresh time
\* plus the expiry; otherwise both return None.  The session becomes
\* authenticated only by authenticate and stays so until logout, the stored
\* time is set to now by authenticate and by a refresh that succeeds, and
\* after logout the session is unauthenticated, so get_token returns None
\* until the next authenticate.
C31_TokenOnlyWhileLive ==
    [][ /\ dev'.last.op = "get_token"
           => /\ dev'.last.ret = IF C31_Live(dev) THEN DEFAULT_DEV_TOKEN ELSE None
              /\ dev'.self = dev.self
        /\ dev'.last.op = "get_auth_headers"
           => /\ dev'.last.ret =
                   IF C31_Live(dev)
                   THEN <<[Authorization |-> <<"Bearer", DEFAULT_DEV_TOKEN>>, X_Dev_Auth |-> "true"]>>
                   ELSE <<>>
              /\ dev'.self = dev.self
        /\ dev'.last.op = "authenticate"
           => /\ dev'.self.is_authenticated
              /\ dev'.self.token_created_at = <<dev.now>>
        /\ dev'.last.op = "logout" => ~dev'.self.is_authenticated
        /\ dev'.last.op \notin {"authenticate", "logout"}
           => dev'.self.is_authenticated = dev.self.is_authenticated
        /\ dev'.last.op \notin {"authenticate", "logout", "refresh_token"}
           => dev'.self.token_created_at = dev.self.token_created_at
        /\ (dev'.last.op = "refresh_token" /\ dev'.last.ret = "True")
           => dev'.self.token_created_at = <<dev.now>> ]_vars

\* get_token returned None in an authenticated session at the very hour the
\* token expired
C31_Witness ==
    /\ dev.last.op = "get_token"
    /\ dev.last.ret = None
    /\ dev.self.is_authenticated
    /\ dev.self.token_expiry_hours > 0
    /\ dev.now = dev.self.token_created_at[1] + dev.self.token_expiry_hours

\* C32: refresh_token on a session that is not authenticated (never
\* authenticated, or logged out) returns False and changes nothing; on an
\* authenticated session it returns True and sets the token creation time to
\* now, leaving the rest as it was, also when the token had expired, so that
\* with a positive expiry is_token_valid is true right afterwards.
C32_RefreshResetsCreationTime ==
    [][ dev'.last.op = "refresh_token"
        => IF dev.self.is_authenticated
           THEN /\ dev'.last.ret = "True"
                /\ dev'.self = [dev.self EXCEPT !.token_created_at = <<dev.now>>]
                /\ dev.self.token_expiry_hours > 0
                     => DevAuth_is_token_valid(dev'.self, dev'.now)
           ELSE /\ dev'.last.ret = "False"
                /\ dev'.self = dev.self ]_vars

\* refresh_token returned True on a session whose token had expired, and the
\* token is valid again
C32_Witness ==
    /\ dev.last.op = "refresh_token"
    /\ dev.last.ret = "True"
    /\ dev.last.prev.is_authenticated
    /\ dev.self.token_expiry_hours > 0
    /\ dev.now >= dev.last.prev.token_created_at[1] + dev.self.token_expiry_hours
    /\ dev.self.token_created_at = <<dev.now>>
    /\ DevAuth_is_token_valid(dev.self, dev.now)

\* C33 as stated: every record in the scores store has a non-empty player and
\* song, score >= 0, notes_total > 0 and 0 <= notes_hit <= notes_total, so
\* its accuracy is between 0 and 100 percent; a rejected register_score call
\* returns an error message and leaves the store unchanged; the store only
\* grows by appends.
C33_Original ==
    [][ /\ \A i \in 1..Len(scores'.db) :
              LET r == scores'.db[i] IN
              /\ Truthy(r.player)
              /\ Truthy(r.song)
              /\ r.score >= 0
              /\ r.notes_total > 0
              /\ 0 <= r.notes_hit
              /\ r.notes_hit <= r.notes_total
              /\ 0 <= r.accuracy[1]
              /\ r.accuracy[1] <= 100 * r.accuracy[2]
        /\ scores'.last[2] # "" => scores'.db = scores.db
        /\ \/ scores'.db = scores.db
           \/ /\ Len(scores'.db) = Len(scores.db) + 1
              /\ SubSeq(scores'.db, 1, Len(scores.db)) = scores.db ]_vars
====
